---- MODULE Spec2Model ----
(***************************************************************************)
(* RedNote-MCP: the resource-arbitration layer of the server.              *)
(*                                                                         *)
(*   RateSpec     RedNoteTools.checkRateLimit (static admission state)     *)
(*   RetrySpec    RedNoteTools.retryWithBackoff under logPerformance       *)
(*   CacheSpec    RedNoteTools.getCachedContent / setCachedContent         *)
(*   ExtractSpec  the comment extraction run by getNoteComments in the     *)
(*                page (page.evaluate callback)                            *)
(*   RequestSpec  one content request (searchNotes, getNoteContent,         *)
(*                getNoteComments): cache lookup, checkRateLimit, the      *)
(*                retry-wrapped fetch and the cache store                  *)
(*   AttemptSpec  the same requests and publishNote with attempts that     *)
(*                fail and are retried after the backoff                   *)
(*   UrlSpec      RedNoteTools.extractRedBookUrl, applied to a text and to    *)
(*                its own result                                           *)
(*   SessionSpec  getRedNoteTools / cleanupGlobalTools and the signal      *)
(*                handlers of cli.ts, RedNoteTools.initialize / cleanup,   *)
(*                AuthManager.getBrowser, for concurrent tool invocations. *)
(*                An action is the code one invocation runs between two    *)
(*                suspensions (await of a browser operation or a timer).   *)
(*   TeardownSpec the tool invocations of SessionSpec with initialize()    *)
(*                failing and the close() calls of cleanup() failing too   *)
(*   DelaySpec    RedNoteTools.smartDelay                                  *)
(*   LoginSpec    AuthManager.login: the attempts, the catch block and the *)
(*                retry pause                                              *)
(*   CreatorSpec  CreatorPlatformAccess.accessCreatorPlatform with         *)
(*                waitForManualLogin                                       *)
(*                                                                         *)
(* Time is Date.now() in milliseconds.  The wall clock of a real run is    *)
(* about 1.7e12; the model starts it at StartTime, one hour after an       *)
(* origin, which like the real clock is far more than MIN_INTERVAL after   *)
(* the initial lastRequestTime = 0.                                        *)
(***************************************************************************)
EXTENDS Integers, Sequences, FiniteSets, TLC

\* ------------------------------------------------------------------------
\* Program constants
\* ------------------------------------------------------------------------
MIN_INTERVAL == 10000

MAX_REQUESTS_PER_HOUR == 20

HOUR == 3600000

HOURLY_MARGIN == 1000

CACHE_TTL == 1800000

BROWSER_TIMEOUT == 1800000

DEFAULT_MAX_RETRIES == 3

StartTime == HOUR

Null == "null"

NoEntry == [data |-> Null, timestamp |-> -1]

\* ------------------------------------------------------------------------
\* Bounds of the model
\* ------------------------------------------------------------------------
NumClients == 2

MaxRequests == 22

MaxOverlaps == 2

MaxRetriesArg == 3

MaxCacheTicks == 3

MaxPageElements == 2

NumThreads == 2

MaxBrowsers == 2

MaxPages == 2

MaxIdles == 2

MaxTextLen == 5

MaxRequestTicks == 3

Clients == 1..NumClients

\* the invocations in progress at the same time: tool handlers and runs of
\* the SIGINT / SIGTERM handlers
Threads == 1..NumThreads

\* A share text, as a sequence of pieces:
\*   "S"  the letters http or https
\*   "x"  ://xhslink.com/
\*   "w"  ://xiaohongshu.com/ or ://www.xiaohongshu.com/
\*   "a"  another character of [a-zA-Z0-9/]
\*   "?"  another character that is neither white space nor a fullwidth comma
\*   " "  white space or a fullwidth comma
TextPieces == {"S", "x", "w", "a", "?", " "}

Texts == UNION {[1..n -> TextPieces] : n \in 0..MaxTextLen}

\* Math.random() * 1000, as whole milliseconds
JitterSamples == {0, 500, 999}

\* the least and the greatest of them
JitterExtremes == {0, 999}

\* what a failing operation throws, and what a succeeding one returns
ErrorTypes == {"Error", "TimeoutError"}

ResultValues == {"v1", "v2"}

CacheKeys == {"note:u1", "comments:u1"}

\* what a publishNote request carries in place of a cache key
PublishKey == "publish"

\* time that passes between two steps of the requests: one and two minutes,
\* and what is then left to 30 and to 31 minutes
RequestSteps == {60000, 120000, CACHE_TTL - 60000, CACHE_TTL}

\* how long the server sits idle: as long as a browser may, and longer
IdleSteps == {BROWSER_TIMEOUT, BROWSER_TIMEOUT + 1}

\* time steps between two cache operations
CacheSteps == {1, CACHE_TTL - 1}

\* Elements a loaded page is made of.  Of an element the model keeps what the
\* extraction looks at:
\*   dialog    0, or the number (in document order) of the [role="dialog"],
\*             .modal or .popup element that contains it
\*   item      it matches [role="listitem"], .comment-item, [class*="comment"]
\*   sels      the selectors of strategy 2 (numbered 1..6) that match it
\*   textLen   length of its textContent
\*   clsKind   "string" for an HTML element; "svg" for an SVG element, whose
\*             className is an SVGAnimatedString object and has no includes()
\*   marks     which of 'comment', 'user' its class name or data-testid contain
\*   author, content   what the field selectors and fallbacks find in it
\*   throws    processing the element raises an error
DialogItem ==
  [dialog |-> 1, item |-> TRUE, sels |-> {1}, textLen |-> 20, clsKind |-> "string",
   marks |-> {}, author |-> "ann", content |-> "nice", throws |-> FALSE]

SecondDialogItem ==
  [dialog |-> 2, item |-> TRUE, sels |-> {}, textLen |-> 20, clsKind |-> "string",
   marks |-> {"comment"}, author |-> "", content |-> "late", throws |-> FALSE]

ListComment ==
  [dialog |-> 0, item |-> TRUE, sels |-> {2}, textLen |-> 20, clsKind |-> "string",
   marks |-> {"comment"}, author |-> "bob", content |-> "", throws |-> FALSE]

LongTestidComment ==
  [dialog |-> 0, item |-> FALSE, sels |-> {4}, textLen |-> 600, clsKind |-> "string",
   marks |-> {"comment"}, author |-> "cy", content |-> "long", throws |-> FALSE]

EmptyNoteComment ==
  [dialog |-> 0, item |-> TRUE, sels |-> {5}, textLen |-> 0, clsKind |-> "string",
   marks |-> {"comment"}, author |-> "", content |-> "", throws |-> FALSE]

EmptyListComment ==
  [dialog |-> 0, item |-> TRUE, sels |-> {2}, textLen |-> 0, clsKind |-> "string",
   marks |-> {"comment"}, author |-> "", content |-> "", throws |-> FALSE]

BrokenComment ==
  [dialog |-> 0, item |-> TRUE, sels |-> {2, 3}, textLen |-> 20, clsKind |-> "string",
   marks |-> {"comment"}, author |-> "dan", content |-> "x", throws |-> TRUE]

UserBadge ==
  [dialog |-> 0, item |-> FALSE, sels |-> {}, textLen |-> 5, clsKind |-> "string",
   marks |-> {"user"}, author |-> "eve", content |-> "", throws |-> FALSE]

SvgIcon ==
  [dialog |-> 0, item |-> FALSE, sels |-> {}, textLen |-> 5, clsKind |-> "svg",
   marks |-> {}, author |-> "", content |-> "", throws |-> FALSE]

PlainDiv ==
  [dialog |-> 0, item |-> FALSE, sels |-> {}, textLen |-> 40, clsKind |-> "string",
   marks |-> {}, author |-> "", content |-> "", throws |-> FALSE]

Elements ==
  {DialogItem, SecondDialogItem, ListComment, LongTestidComment, EmptyNoteComment,
   EmptyListComment, BrokenComment, UserBadge, SvgIcon, PlainDiv}

\* a page: its elements in document order
Pages == UNION {[1..n -> Elements] : n \in 0..MaxPageElements}

VARIABLES
  clock,              \* Date.now()
  lastRequestTime,    \* RedNoteTools.lastRequestTime
  requestCount,       \* RedNoteTools.requestCount
  requestTimestamps,  \* RedNoteTools.requestTimestamps
  rlPc,               \* per caller: position inside checkRateLimit
  rlNow,              \* per caller: the local const now
  rlWake,             \* per caller: deadline of the pending setTimeout
  rlOverlaps,         \* calls made so far while another call was suspended
  rtPc,               \* position inside retryWithBackoff / logPerformance
  rtMax,              \* the argument maxRetries
  rtAttempt,          \* the loop variable attempt
  rtLog,              \* outcome of every invocation of the operation, in order
  rtSleeps,           \* delay of every backoff setTimeout, in order
  rtOutcome,          \* what retryWithBackoff returned or threw
  rtCaller,           \* what the caller of logPerformance receives
  contentCache,       \* this.contentCache
  cacheLastSet,       \* per key: arguments and time of the last setCachedContent
  cacheLastGet,       \* per key: time and result of the last getCachedContent,
                      \*          and the setCachedContent that preceded it
  cacheTicks,         \* time steps taken between cache operations
  xPc,                \* position inside the extraction callback
  xPage,              \* the document the callback runs in
  xI,                 \* the loop variable i over strategies
  xTried,             \* the strategies called so far, in order
  xItems,             \* let items
  xUsed,              \* let usedStrategy
  xIndex,             \* the loop variable index over items
  xResults,           \* const results
  globalRedNoteTools, \* cli.ts: 0 for null, else the number of the instance
  isInitializing,     \* cli.ts
  tools,              \* the RedNoteTools instances: this.browser, this.page
  browserInstance,    \* AuthManager.browserInstance: 0 for null
  lastUsed,           \* AuthManager.lastUsed
  browsers,           \* every browser launched: state, close() calls
  pages,              \* every page opened: its browser, state, close() calls
  pc,                 \* per invocation: where it is suspended
  ctx,                \* per invocation: what it is running
  self,               \* per invocation: the instance it works on (this / tools)
  attemptOf,          \* per invocation: attempt of retryWithBackoff
  target,             \* per invocation: the browser or page of the pending call
  got,                \* per invocation: what getRedNoteTools returned to it
  exited,             \* process.exit was called
  idles,              \* how often the server has sat idle
  caught,             \* per invocation: the error the catch block of initialize handles
  \* extractRedBookUrl
  uPc,                \* "idle", "once", "twice"
  uText,              \* the argument of the first call
  uOut,               \* its result
  uAgain,             \* the result of the call on that result
  \* content requests, one per client
  qPc,                \* "idle", "admission", "fetching", "backoff", "returned", "threw"
  qKey,               \* the cache key of the request
  qTrace,             \* the steps the request has taken, in order
  qIssuedAt,          \* when it was issued
  qSeenStamp,         \* the timestamp of the entry its lookup found, or -1
  qStoredAt,          \* when it stored its result, or -1
  qResult,            \* what it returned
  qAttempt,           \* the loop variable attempt of its retryWithBackoff
  qWake,              \* deadline of its pending backoff setTimeout
  qTicks,             \* time steps taken
  \* smartDelay
  sdPc,               \* "idle", "sleeping", "done"
  sdHour,             \* const hour
  sdRandom,           \* Math.random() * 5000, in whole milliseconds
  sdDelay,            \* const randomDelay, the argument of setTimeout
  \* AuthManager.login
  lgPc,               \* where login() is suspended
  lgRetryCount,       \* let retryCount
  lgContext,          \* this.context: 0 for undefined
  lgPage,             \* this.page: 0 for undefined
  lgContexts,         \* every context opened: "open" or "closed"
  lgPages,            \* every page opened: its context and state
  lgAttempts,         \* iterations of the while loop entered so far
  lgSleeps,           \* delay of every retry setTimeout, in order
  lgSaves,            \* calls of saveCookies that have completed
  lgCaught,           \* the error the catch block is handling
  lgOutcome,          \* what login() returned or threw
  \* CreatorPlatformAccess
  cpPc,               \* where accessCreatorPlatform() is suspended
  cpCaller,           \* the method that called waitForManualLogin
  cpAttempts,         \* let attempts of waitForManualLogin
  cpSeen,             \* a poll of this wait has read a logged-in URL
  cpWait,             \* how the last waitForManualLogin ended
  cpWaits,            \* calls of waitForManualLogin so far
  cpResult            \* what accessCreatorPlatform() returned or threw

rateVars == <<lastRequestTime, requestCount, requestTimestamps, rlPc, rlNow, rlWake, rlOverlaps>>

retryVars == <<rtPc, rtMax, rtAttempt, rtLog, rtSleeps, rtOutcome, rtCaller>>

cacheVars == <<contentCache, cacheLastSet, cacheLastGet, cacheTicks>>

extractVars == <<xPc, xPage, xI, xTried, xItems, xUsed, xIndex, xResults>>

resourceVars == <<tools, browsers, pages, target>>

controlVars == <<pc, globalRedNoteTools, isInitializing, attemptOf, got, exited>>

sessionVars == <<resourceVars, controlVars, browserInstance, lastUsed, ctx, self, idles,
                 caught>>

urlVars == <<uPc, uText, uOut, uAgain>>

requestVars == <<qPc, qKey, qTrace, qIssuedAt, qSeenStamp, qStoredAt, qResult, qAttempt,
                 qWake, qTicks>>

delayVars == <<sdPc, sdHour, sdRandom, sdDelay>>

loginVars == <<lgPc, lgRetryCount, lgContext, lgPage, lgContexts, lgPages, lgAttempts,
               lgSleeps, lgSaves, lgCaught, lgOutcome>>

creatorVars == <<cpPc, cpCaller, cpAttempts, cpSeen, cpWait, cpWaits, cpResult>>

publishVars == <<delayVars, loginVars, creatorVars>>

vars == <<clock, rateVars, retryVars, cacheVars, extractVars, sessionVars, urlVars,
          requestVars, publishVars>>

\* what the operations of one component leave alone
OutsideRate == <<retryVars, cacheVars, extractVars, sessionVars, urlVars, requestVars,
                 publishVars>>

OutsideRetry == <<clock, rateVars, cacheVars, extractVars, sessionVars, urlVars, requestVars,
                  publishVars>>

OutsideCache == <<rateVars, retryVars, extractVars, sessionVars, urlVars, requestVars,
                  publishVars>>

OutsideExtract == <<clock, rateVars, retryVars, cacheVars, sessionVars, urlVars, requestVars,
                    publishVars>>

OutsideSession == <<rateVars, retryVars, cacheVars, extractVars, urlVars, requestVars,
                    publishVars>>

OutsideUrl == <<clock, rateVars, retryVars, cacheVars, extractVars, sessionVars, requestVars,
                publishVars>>

OutsideRequest == <<retryVars, extractVars, sessionVars, urlVars,
                    publishVars>>

OutsideDelay == <<clock, rateVars, retryVars, cacheVars, extractVars, sessionVars, urlVars,
                  requestVars, loginVars, creatorVars>>

OutsideLogin == <<clock, rateVars, retryVars, cacheVars, extractVars, sessionVars, urlVars,
                  requestVars, delayVars, creatorVars>>

OutsideCreator == <<clock, rateVars, retryVars, cacheVars, extractVars, sessionVars, urlVars,
                    requestVars, delayVars, loginVars>>

\* ------------------------------------------------------------------------
\* checkRateLimit
\* ------------------------------------------------------------------------
\* requestTimestamps.filter(timestamp => now - timestamp < 3600000)
PruneTimestamps(ts, now) ==
  SelectSeq(ts, LAMBDA t : now - t < HOUR)

HourlyWaitTimeEarly(ts, now) ==
  HOUR - (now - ts[1]) - MIN_INTERVAL - HOURLY_MARGIN

\* 3600000 - (now - oldestRequest) + 1000
HourlyWaitTime(ts, now) ==
  HOUR - (now - ts[1]) + HOURLY_MARGIN

\* if (timeSinceLastRequest < MIN_INTERVAL)
IntervalTooShort(now, last) ==
  now - last < MIN_INTERVAL

\* MIN_INTERVAL - timeSinceLastRequest
IntervalWaitTime(now, last) ==
  MIN_INTERVAL - (now - last)

RecordRequestStaleNow(c, ts) ==
  /\ lastRequestTime' = rlNow[c]
  /\ requestTimestamps' = Append(ts, rlNow[c])
  /\ requestCount' = requestCount + 1
  /\ rlPc' = [rlPc EXCEPT ![c] = "idle"]
  /\ rlWake' = [rlWake EXCEPT ![c] = 0]

RecordRequestNoPush(c, ts) ==
  /\ lastRequestTime' = clock
  /\ requestTimestamps' = ts
  /\ requestCount' = requestCount + 1
  /\ rlPc' = [rlPc EXCEPT ![c] = "idle"]
  /\ rlWake' = [rlWake EXCEPT ![c] = 0]

\* lines 874-877: the timestamp is read again and recorded
RecordRequest(c, ts) ==
  /\ lastRequestTime' = clock
  /\ requestTimestamps' = Append(ts, clock)
  /\ requestCount' = requestCount + 1
  /\ rlPc' = [rlPc EXCEPT ![c] = "idle"]
  /\ rlWake' = [rlWake EXCEPT ![c] = 0]

\* lines 866-877, run with the local now and the array ts as it stands
IntervalCheck(c, ts, now) ==
  IF IntervalTooShort(now, lastRequestTime)
    THEN /\ rlPc' = [rlPc EXCEPT ![c] = "intervalWait"]
         /\ rlWake' = [rlWake EXCEPT ![c] = clock + IntervalWaitTime(now, lastRequestTime)]
         /\ requestTimestamps' = ts
         /\ UNCHANGED <<lastRequestTime, requestCount>>
    ELSE RecordRequest(c, ts)

\* checkRateLimit from its start to its first suspension or its return
CheckRateLimitEnters(c) ==
  /\ rlPc[c] = "idle"
  /\ requestCount < MaxRequests
  /\ IF \E d \in Clients : rlPc[d] # "idle"
       THEN rlOverlaps < MaxOverlaps /\ rlOverlaps' = rlOverlaps + 1
       ELSE UNCHANGED rlOverlaps
  /\ LET now == clock
         pruned == PruneTimestamps(requestTimestamps, now)
     IN /\ rlNow' = [rlNow EXCEPT ![c] = now]
        /\ IF Len(pruned) >= MAX_REQUESTS_PER_HOUR
             THEN /\ rlPc' = [rlPc EXCEPT ![c] = "hourlyWait"]
                  /\ rlWake' = [rlWake EXCEPT ![c] = clock + HourlyWaitTime(pruned, now)]
                  /\ requestTimestamps' = pruned
                  /\ UNCHANGED <<lastRequestTime, requestCount>>
             ELSE IntervalCheck(c, pruned, now)

\* A caller enters checkRateLimit and runs to its first suspension.
CheckRateLimit(c) ==
  /\ CheckRateLimitEnters(c)
  /\ UNCHANGED <<clock, OutsideRate>>

HourlyTimerFiresNoInterval(c) ==
  /\ rlPc[c] = "hourlyWait"
  /\ clock >= rlWake[c]
  /\ RecordRequest(c, requestTimestamps)
  /\ UNCHANGED <<rlNow, rlOverlaps>>

\* checkRateLimit from the hourly setTimeout on: the interval check runs with
\* the old now
HourlyTimerFires(c) ==
  /\ rlPc[c] = "hourlyWait"
  /\ clock >= rlWake[c]
  /\ IntervalCheck(c, requestTimestamps, rlNow[c])
  /\ UNCHANGED <<rlNow, rlOverlaps>>

\* The hourly setTimeout has fired.
HourlyWaitDone(c) ==
  /\ HourlyTimerFires(c)
  /\ UNCHANGED <<clock, OutsideRate>>

\* checkRateLimit from the interval setTimeout on
IntervalTimerFires(c) ==
  /\ rlPc[c] = "intervalWait"
  /\ clock >= rlWake[c]
  /\ RecordRequest(c, requestTimestamps)
  /\ UNCHANGED <<rlNow, rlOverlaps>>

\* The interval setTimeout has fired.
IntervalWaitDone(c) ==
  /\ IntervalTimerFires(c)
  /\ UNCHANGED <<clock, OutsideRate>>

PendingWakes ==
  {rlWake[c] : c \in {d \in Clients : rlPc[d] # "idle" /\ rlWake[d] > clock}}
    \cup {qWake[c] : c \in {d \in Clients : qPc[d] = "backoff" /\ qWake[d] > clock}}

\* Time passes until the earliest pending timer is due.
RateAdvance ==
  /\ PendingWakes # {}
  /\ clock' = CHOOSE w \in PendingWakes : \A v \in PendingWakes : w <= v
  /\ UNCHANGED <<rateVars, OutsideRate>>

\* ------------------------------------------------------------------------
\* retryWithBackoff, called through logPerformance
\* ------------------------------------------------------------------------
RECURSIVE Pow2(_)
Pow2(n) == IF n = 0 THEN 1 ELSE 2 * Pow2(n - 1)

BackoffDelayFromZero(attempt, jitter) ==
  Pow2(attempt - 1) * 1000 + jitter

\* Math.pow(2, attempt) * 1000 + jitter
BackoffDelay(attempt, jitter) ==
  Pow2(attempt) * 1000 + jitter

LastAttemptOneEarly(attempt, maxRetries) ==
  attempt >= maxRetries - 1

\* if (attempt === maxRetries)
LastAttempt(attempt, maxRetries) ==
  attempt = maxRetries

\* throw error: the caught error object itself
RethrownError(error) ==
  error

NoOutcome == [kind |-> "none"]

\* logPerformance calls fn, which calls retryWithBackoff: attempt = 1
RetryCall(m) ==
  /\ rtPc = "idle"
  /\ rtPc' = "attempt"
  /\ rtMax' = m
  /\ rtAttempt' = 1
  /\ UNCHANGED <<rtLog, rtSleeps, rtOutcome, rtCaller>>
  /\ UNCHANGED OutsideRetry

\* return await operation(): the operation resolves with v
OperationReturns(v) ==
  /\ rtPc = "attempt"
  /\ rtLog' = Append(rtLog, [ok |-> TRUE, value |-> v])
  /\ rtOutcome' = [kind |-> "returned", value |-> v]
  /\ rtPc' = "settled"
  /\ UNCHANGED <<rtMax, rtAttempt, rtSleeps, rtCaller>>
  /\ UNCHANGED OutsideRetry

\* catch (error): the operation rejects with a new error object
OperationThrows(ty, jitter) ==
  /\ rtPc = "attempt"
  /\ LET error == [type |-> ty, attempt |-> rtAttempt]
     IN /\ rtLog' = Append(rtLog, [ok |-> FALSE, value |-> error])
        /\ IF LastAttempt(rtAttempt, rtMax)
             THEN /\ rtOutcome' = [kind |-> "threw", value |-> RethrownError(error)]
                  /\ rtPc' = "settled"
                  /\ UNCHANGED rtSleeps
             ELSE /\ rtSleeps' = Append(rtSleeps, BackoffDelay(rtAttempt, jitter))
                  /\ rtPc' = "sleeping"
                  /\ UNCHANGED rtOutcome
  /\ UNCHANGED <<rtMax, rtAttempt, rtCaller>>
  /\ UNCHANGED OutsideRetry

\* the backoff setTimeout fires: attempt++
BackoffDone ==
  /\ rtPc = "sleeping"
  /\ rtAttempt' = rtAttempt + 1
  /\ rtPc' = "attempt"
  /\ UNCHANGED <<rtMax, rtLog, rtSleeps, rtOutcome, rtCaller>>
  /\ UNCHANGED OutsideRetry

\* logPerformance: return result / throw error, unchanged
LogPerformanceSettles ==
  /\ rtPc = "settled"
  /\ rtCaller' = rtOutcome
  /\ rtPc' = "done"
  /\ UNCHANGED <<rtMax, rtAttempt, rtLog, rtSleeps, rtOutcome>>
  /\ UNCHANGED OutsideRetry

RetryInit ==
  /\ rtPc = "idle"
  /\ rtMax = DEFAULT_MAX_RETRIES
  /\ rtAttempt = 0
  /\ rtLog = << >>
  /\ rtSleeps = << >>
  /\ rtOutcome = NoOutcome
  /\ rtCaller = NoOutcome

RetryNext ==
  \/ \E m \in 1..MaxRetriesArg : RetryCall(m)
  \/ \E v \in ResultValues : OperationReturns(v)
  \/ \E ty \in ErrorTypes, j \in JitterSamples : OperationThrows(ty, j)
  \/ BackoffDone
  \/ LogPerformanceSettles

\* ------------------------------------------------------------------------
\* the content cache
\* ------------------------------------------------------------------------
CacheFreshInclusive(entry, now) ==
  entry # NoEntry /\ now - entry.timestamp <= CACHE_TTL

\* cached && Date.now() - cached.timestamp < this.CACHE_TTL
CacheFresh(entry, now) ==
  entry # NoEntry /\ now - entry.timestamp < CACHE_TTL

\* getCachedContent: cached.data on a fresh entry, null otherwise
CachedLookup(cache, key, now) ==
  IF CacheFresh(cache[key], now) THEN cache[key].data ELSE Null

\* this.contentCache.set(key, {data, timestamp: Date.now()})
CacheStore(cache, key, data, now) ==
  [cache EXCEPT ![key] = [data |-> data, timestamp |-> now]]

CacheReadRefreshing(k) ==
  /\ cacheLastGet' = [cacheLastGet EXCEPT ![k] =
                        [at |-> clock, since |-> cacheLastSet[k],
                         result |-> CachedLookup(contentCache, k, clock),
                         hitBefore |-> FALSE]]
  /\ contentCache' = IF CachedLookup(contentCache, k, clock) # Null
                       THEN [contentCache EXCEPT ![k].timestamp = clock]
                       ELSE contentCache
  /\ UNCHANGED <<cacheLastSet, cacheTicks>>

\* what getCachedContent(k) does to the cache and its history; hitBefore
\* tells whether the entry has been hit before, since it was stored
CacheRead(k) ==
  /\ cacheLastGet' = [cacheLastGet EXCEPT ![k] =
                        [at |-> clock, since |-> cacheLastSet[k],
                         result |-> CachedLookup(contentCache, k, clock),
                         hitBefore |-> /\ cacheLastGet[k].at >= 0
                                       /\ cacheLastGet[k].since = cacheLastSet[k]
                                       /\ \/ cacheLastGet[k].hitBefore
                                          \/ cacheLastGet[k].result # Null]]
  /\ UNCHANGED <<contentCache, cacheLastSet, cacheTicks>>

GetCachedContent(k) ==
  /\ CacheRead(k)
  /\ UNCHANGED <<clock, OutsideCache>>

\* what setCachedContent(k, v) does to the cache and its history
CacheWrite(k, v) ==
  /\ contentCache' = CacheStore(contentCache, k, v, clock)
  /\ cacheLastSet' = [cacheLastSet EXCEPT ![k] = [at |-> clock, data |-> v]]
  /\ UNCHANGED <<cacheLastGet, cacheTicks>>

SetCachedContent(k, v) ==
  /\ CacheWrite(k, v)
  /\ UNCHANGED <<clock, OutsideCache>>

CacheTick(d) ==
  /\ cacheTicks < MaxCacheTicks
  /\ cacheTicks' = cacheTicks + 1
  /\ clock' = clock + d
  /\ UNCHANGED <<contentCache, cacheLastSet, cacheLastGet>>
  /\ UNCHANGED OutsideCache

NoOp == [at |-> -1]

CacheInit ==
  /\ contentCache = [k \in CacheKeys |-> NoEntry]
  /\ cacheLastSet = [k \in CacheKeys |-> NoOp]
  /\ cacheLastGet = [k \in CacheKeys |-> NoOp]
  /\ cacheTicks = 0

CacheNext ==
  \/ \E k \in CacheKeys : GetCachedContent(k)
  \/ \E k \in CacheKeys, v \in ResultValues : SetCachedContent(k, v)
  \/ \E d \in CacheSteps : CacheTick(d)

\* ------------------------------------------------------------------------
\* comment extraction of getNoteComments
\* ------------------------------------------------------------------------
NumStrategies == 3

NumContainerSelectors == 6

\* querySelectorAll returns its matches in document order: the positions in
\* the set, ascending
RECURSIVE InDocumentOrder(_)
InDocumentOrder(positions) ==
  IF positions = {} THEN << >>
  ELSE LET first == CHOOSE p \in positions : \A q \in positions : p <= q
       IN <<first>> \o InDocumentOrder(positions \ {first})

NullIfEmpty(items) == IF Len(items) > 0 THEN items ELSE Null

\* Strategy 1: the items of the first dialog that has any
DialogStrategy(page) ==
  LET dialogs == {page[i].dialog : i \in {j \in DOMAIN page : page[j].dialog > 0 /\ page[j].item}}
  IN IF dialogs = {} THEN Null
     ELSE LET first == CHOOSE d \in dialogs : \A e \in dialogs : d <= e
          IN InDocumentOrder({i \in DOMAIN page : page[i].dialog = first /\ page[i].item})

\* Strategy 2: the matches of the first container selector that has any
RECURSIVE ContainerStrategyFrom(_, _)
ContainerStrategyFrom(page, sel) ==
  IF sel > NumContainerSelectors THEN Null
  ELSE LET items == InDocumentOrder({i \in DOMAIN page : sel \in page[i].sels})
       IN IF Len(items) > 0 THEN items ELSE ContainerStrategyFrom(page, sel + 1)

ContainerStrategy(page) == ContainerStrategyFrom(page, 1)

\* text.length > 0 && text.length < 500
CommentSizedText(el) == el.textLen > 0 /\ el.textLen < 500

\* Strategy 3 calls classList.includes on every element with such a text
AnyElementThrows(page) ==
  \E i \in DOMAIN page : CommentSizedText(page[i]) /\ page[i].clsKind # "string"

\* Strategy 3: every element with a comment-like class or test id
AnyElementStrategy(page) ==
  NullIfEmpty(InDocumentOrder({i \in DOMAIN page :
                                 CommentSizedText(page[i]) /\ page[i].marks # {}}))

StrategyThrows(n, page) ==
  n = 3 /\ AnyElementThrows(page)

StrategyResult(n, page) ==
  CASE n = 1 -> DialogStrategy(page)
    [] n = 2 -> ContainerStrategy(page)
    [] n = 3 -> AnyElementStrategy(page)

StrategyNeverWins(items) ==
  FALSE

\* if (items && items.length > 0): the strategy is used and the loop left
StrategyWins(items) ==
  items # Null /\ Len(items) > 0

MeaningfulAlways(author, content) ==
  TRUE

\* if (author || content)
Meaningful(author, content) ==
  author # "" \/ content # ""

\* results.push({author: author || 'Unknown', content: content || '', ...})
CommentRecord(author, content) ==
  [author |-> IF author # "" THEN author ELSE "Unknown", content |-> content]

\* lines 1453-1456 and the start of the item loop
AfterStrategies(items) ==
  IF items = Null \/ Len(items) = 0
    THEN xPc' = "returned"
    ELSE xPc' = "items"

\* page.evaluate starts the callback in the loaded document
Evaluate(page) ==
  /\ xPc = "idle"
  /\ xPc' = "strategies"
  /\ xPage' = page
  /\ UNCHANGED <<xI, xTried, xItems, xUsed, xIndex, xResults>>
  /\ UNCHANGED OutsideExtract

\* one pass of the loop over strategies
RunStrategy ==
  /\ xPc = "strategies"
  /\ xTried' = Append(xTried, xI + 1)
  /\ IF StrategyThrows(xI + 1, xPage)
       THEN /\ xPc' = "threw"
            /\ UNCHANGED <<xI, xItems, xUsed>>
       ELSE LET items == StrategyResult(xI + 1, xPage)
            IN /\ xItems' = items
               /\ IF StrategyWins(items)
                    THEN /\ xUsed' = xI + 1
                         /\ UNCHANGED xI
                         /\ AfterStrategies(items)
                    ELSE /\ xI' = xI + 1
                         /\ UNCHANGED xUsed
                         /\ IF xI + 1 < NumStrategies
                              THEN xPc' = "strategies"
                              ELSE AfterStrategies(items)
  /\ UNCHANGED <<xPage, xIndex, xResults>>
  /\ UNCHANGED OutsideExtract

\* one pass of the loop over items; an error is caught and the item skipped
ProcessItem ==
  /\ xPc = "items"
  /\ LET item == xPage[xItems[xIndex + 1]]
     IN xResults' = IF ~item.throws /\ Meaningful(item.author, item.content)
                      THEN Append(xResults, CommentRecord(item.author, item.content))
                      ELSE xResults
  /\ xIndex' = xIndex + 1
  /\ xPc' = IF xIndex + 1 < Len(xItems) THEN "items" ELSE "returned"
  /\ UNCHANGED <<xPage, xI, xTried, xItems, xUsed>>
  /\ UNCHANGED OutsideExtract

ExtractInit ==
  /\ xPc = "idle"
  /\ xPage = << >>
  /\ xI = 0
  /\ xTried = << >>
  /\ xItems = Null
  /\ xUsed = 0
  /\ xIndex = 0
  /\ xResults = << >>

ExtractNext ==
  \/ \E page \in Pages : Evaluate(page)
  \/ RunStrategy
  \/ ProcessItem

\* ------------------------------------------------------------------------
\* the shared session: cli.ts, RedNoteTools.initialize / cleanup, AuthManager
\* ------------------------------------------------------------------------
NewTools == [browser |-> 0, page |-> 0]

NewBrowser == [state |-> "open", signalCloseCalls |-> 0]

NewPage(b) == [browser |-> b, state |-> "open", signalCloseCalls |-> 0]

IsBrowserValidUnprobed(instance, used, now, B) ==
  instance # 0 /\ ~(now - used > BROWSER_TIMEOUT)

\* AuthManager.isBrowserValid
IsBrowserValid(instance, used, now, B) ==
  IF instance = 0 THEN FALSE
  ELSE LET isExpired == now - used > BROWSER_TIMEOUT
           isConnected == B[instance].state = "open"
       IN ~(isExpired \/ ~isConnected)

NoInstanceYetUnchecked(global) ==
  TRUE

\* if (!globalRedNoteTools), line 43
NoInstanceYet(global) ==
  global = 0

\* x.close() is called by a signal handler's cleanup (counted) or by another
\* caller; the resource closes when the call completes
CloseCalled(R, r, bySignal) ==
  [R EXCEPT ![r].signalCloseCalls = IF bySignal THEN @ + 1 ELSE @]

\* browser.close() has completed: the browser and its pages are closed
BrowserClosed(B, b) == [B EXCEPT ![b].state = "closed"]

PagesOfClosed(P, b) ==
  [p \in DOMAIN P |-> IF P[p].browser = b THEN [P[p] EXCEPT !.state = "closed"] ELSE P[p]]

\* the invocation is suspended again
Suspend(t, where) ==
  /\ pc' = [pc EXCEPT ![t] = where]
  /\ UNCHANGED <<globalRedNoteTools, isInitializing, attemptOf, got, exited>>

\* retryWithBackoff after a failed attempt: give up or sleep
AfterFailedAttempt(t) ==
  /\ pc' = [pc EXCEPT ![t] = IF LastAttempt(attemptOf[t], DEFAULT_MAX_RETRIES)
                              THEN "failed" ELSE "backoff"]
  /\ UNCHANGED <<globalRedNoteTools, isInitializing, attemptOf, got, exited>>

InitializeThrewNoFinally(t) ==
  IF ctx[t] = "construct"
    THEN /\ pc' = [pc EXCEPT ![t] = "failed"]
         /\ UNCHANGED <<isInitializing, globalRedNoteTools, attemptOf, got, exited>>
    ELSE AfterFailedAttempt(t)

\* initialize() has thrown
InitializeThrew(t) ==
  IF ctx[t] = "construct"
    THEN \* getRedNoteTools: finally { isInitializing = false }, the error propagates
         /\ isInitializing' = FALSE
         /\ pc' = [pc EXCEPT ![t] = "failed"]
         /\ UNCHANGED <<globalRedNoteTools, attemptOf, got, exited>>
    ELSE AfterFailedAttempt(t)

\* initialize() has returned
InitializeReturned(t) ==
  IF ctx[t] = "construct"
    THEN \* finally { isInitializing = false }; return globalRedNoteTools
         /\ isInitializing' = FALSE
         /\ got' = [got EXCEPT ![t] = globalRedNoteTools]
         /\ pc' = [pc EXCEPT ![t] = "request"]
         /\ UNCHANGED <<globalRedNoteTools, attemptOf, exited>>
    ELSE Suspend(t, "fetch")

\* cleanup() has returned to its caller
CleanupReturned(t) ==
  IF ctx[t] = "signal"
    THEN \* cleanupGlobalTools: globalRedNoteTools = null; handler: process.exit(0)
         /\ globalRedNoteTools' = 0
         /\ exited' = TRUE
         /\ pc' = [pc EXCEPT ![t] = "exited"]
         /\ UNCHANGED <<isInitializing, attemptOf, got>>
    ELSE \* initialize: catch { await this.cleanup(); throw error }
         InitializeThrew(t)

\* cleanup() from `if (this.browser)` on; T, P, B are tools, pages and
\* browsers as the step has left them so far
CleanupBrowser(t, T, P, B) ==
  IF T[self[t]].browser # 0
    THEN /\ browsers' = CloseCalled(B, T[self[t]].browser, ctx[t] = "signal")
         /\ pages' = P
         /\ tools' = T
         /\ target' = [target EXCEPT ![t] = T[self[t]].browser]
         /\ Suspend(t, "cleanupBrowser")
    ELSE /\ browsers' = B
         /\ pages' = P
         /\ tools' = [T EXCEPT ![self[t]] = NewTools]
         /\ target' = [target EXCEPT ![t] = 0]
         /\ CleanupReturned(t)

\* cleanup() from its start
CleanupPage(t, T, P, B) ==
  IF T[self[t]].page # 0
    THEN /\ pages' = CloseCalled(P, T[self[t]].page, ctx[t] = "signal")
         /\ browsers' = B
         /\ tools' = T
         /\ target' = [target EXCEPT ![t] = T[self[t]].page]
         /\ Suspend(t, "cleanupPage")
    ELSE CleanupBrowser(t, T, P, B)

GetBrowserNoTouch(t, inst, T) ==
  IF IsBrowserValid(browserInstance, lastUsed, clock, browsers)
    THEN /\ tools' = IF inst = 0 THEN T ELSE [T EXCEPT ![inst].browser = browserInstance]
         /\ target' = [target EXCEPT ![t] = IF inst = 0 THEN 0 ELSE browserInstance]
         /\ pc' = [pc EXCEPT ![t] = IF inst = 0 THEN "done" ELSE "newPage"]
         /\ UNCHANGED <<browsers, browserInstance, lastUsed>>
    ELSE IF browserInstance # 0
      THEN /\ target' = [target EXCEPT ![t] = browserInstance]
           /\ tools' = T
           /\ pc' = [pc EXCEPT ![t] = "closingStale"]
           /\ UNCHANGED <<browsers, lastUsed, browserInstance>>
      ELSE /\ tools' = T
           /\ pc' = [pc EXCEPT ![t] = "launching"]
           /\ UNCHANGED <<browsers, target, lastUsed, browserInstance>>

\* getBrowser() from its start, for an invocation working on instance inst
\* (0 for the login tool, which keeps the browser in its own AuthManager)
GetBrowser(t, inst, T) ==
  IF IsBrowserValid(browserInstance, lastUsed, clock, browsers)
    THEN /\ lastUsed' = clock
         /\ tools' = IF inst = 0 THEN T ELSE [T EXCEPT ![inst].browser = browserInstance]
         /\ target' = [target EXCEPT ![t] = IF inst = 0 THEN 0 ELSE browserInstance]
         /\ pc' = [pc EXCEPT ![t] = IF inst = 0 THEN "done" ELSE "newPage"]
         /\ UNCHANGED <<browsers, browserInstance>>
    ELSE IF browserInstance # 0
      THEN \* cleanupBrowserInstance: await AuthManager.browserInstance.close()
           /\ target' = [target EXCEPT ![t] = browserInstance]
           /\ tools' = T
           /\ pc' = [pc EXCEPT ![t] = "closingStale"]
           /\ UNCHANGED <<browsers, lastUsed, browserInstance>>
      ELSE \* await chromium.launch(...)
           /\ tools' = T
           /\ pc' = [pc EXCEPT ![t] = "launching"]
           /\ UNCHANGED <<browsers, target, lastUsed, browserInstance>>

ConstructFlagOnly(t) ==
  /\ isInitializing' = TRUE
  /\ UNCHANGED globalRedNoteTools
  /\ self' = [self EXCEPT ![t] = Len(tools) + 1]
  /\ ctx' = [ctx EXCEPT ![t] = "construct"]
  /\ GetBrowser(t, Len(tools) + 1, Append(tools, NewTools))
  /\ UNCHANGED got

ConstructUnguarded(t) ==
  /\ UNCHANGED <<isInitializing, globalRedNoteTools>>
  /\ self' = [self EXCEPT ![t] = Len(tools) + 1]
  /\ ctx' = [ctx EXCEPT ![t] = "construct"]
  /\ GetBrowser(t, Len(tools) + 1, Append(tools, NewTools))
  /\ UNCHANGED got

\* getRedNoteTools() from line 53: isInitializing = true;
\* globalRedNoteTools = new RedNoteTools(); await globalRedNoteTools.initialize()
Construct(t) ==
  /\ isInitializing' = TRUE
  /\ globalRedNoteTools' = Len(tools) + 1
  /\ self' = [self EXCEPT ![t] = Len(tools) + 1]
  /\ ctx' = [ctx EXCEPT ![t] = "construct"]
  /\ GetBrowser(t, Len(tools) + 1, Append(tools, NewTools))
  /\ UNCHANGED got

\* getRedNoteTools() returns the instance that exists
ReturnExisting(t) ==
  /\ got' = [got EXCEPT ![t] = globalRedNoteTools]
  /\ self' = [self EXCEPT ![t] = globalRedNoteTools]
  /\ pc' = [pc EXCEPT ![t] = "request"]
  /\ UNCHANGED <<globalRedNoteTools, isInitializing, tools, browsers, target,
                 lastUsed, browserInstance, ctx>>

\* A tool handler calls getRedNoteTools().
ToolCall(t) ==
  /\ ~exited
  /\ pc[t] = "start"
  /\ IF ~NoInstanceYet(globalRedNoteTools)
       THEN ReturnExisting(t)
       ELSE IF isInitializing
         THEN /\ pc' = [pc EXCEPT ![t] = "polling"]
              /\ UNCHANGED <<globalRedNoteTools, isInitializing, tools, browsers, target,
                             lastUsed, browserInstance, ctx, self, got>>
         ELSE Construct(t)
  /\ UNCHANGED <<pages, attemptOf, exited, idles, clock, OutsideSession>>
  /\ UNCHANGED caught

\* The login tool: new AuthManager().login() starts with getBrowser().
LoginCall(t) ==
  /\ ~exited
  /\ pc[t] = "start"
  /\ ctx' = [ctx EXCEPT ![t] = "login"]
  /\ GetBrowser(t, 0, tools)
  /\ UNCHANGED <<globalRedNoteTools, isInitializing, attemptOf, got, exited, self>>
  /\ UNCHANGED <<pages, idles, clock, OutsideSession>>
  /\ UNCHANGED caught

\* cleanupBrowserInstance: close() of the stale browser has settled;
\* finally { browserInstance = null }; then chromium.launch is called
StaleBrowserClosed(t) ==
  /\ ~exited
  /\ pc[t] = "closingStale"
  /\ browsers' = BrowserClosed(browsers, target[t])
  /\ pages' = PagesOfClosed(pages, target[t])
  /\ browserInstance' = 0
  /\ target' = [target EXCEPT ![t] = 0]
  /\ pc' = [pc EXCEPT ![t] = "launching"]
  /\ UNCHANGED <<tools, lastUsed, ctx, self, idles>>
  /\ UNCHANGED <<globalRedNoteTools, isInitializing, attemptOf, got, exited>>
  /\ UNCHANGED <<clock, OutsideSession>>
  /\ UNCHANGED caught

StaleBrowserCloseFailedThrown(t) ==
  /\ ~exited
  /\ pc[t] = "closingStale"
  /\ target' = [target EXCEPT ![t] = 0]
  /\ pc' = [pc EXCEPT ![t] = "failed"]
  /\ UNCHANGED <<browsers, pages, browserInstance, tools, lastUsed, ctx, self, idles>>
  /\ UNCHANGED <<globalRedNoteTools, isInitializing, attemptOf, got, exited>>
  /\ UNCHANGED <<clock, OutsideSession>>
  /\ UNCHANGED caught

\* cleanupBrowserInstance: close() of the stale browser has thrown, the
\* browser is left as it was; catch { log }, finally { browserInstance =
\* null }; then chromium.launch is called
StaleBrowserCloseFailed(t) ==
  /\ ~exited
  /\ pc[t] = "closingStale"
  /\ browserInstance' = 0
  /\ target' = [target EXCEPT ![t] = 0]
  /\ pc' = [pc EXCEPT ![t] = "launching"]
  /\ UNCHANGED <<browsers, pages, tools, lastUsed, ctx, self, idles>>
  /\ UNCHANGED <<globalRedNoteTools, isInitializing, attemptOf, got, exited>>
  /\ UNCHANGED <<clock, OutsideSession>>
  /\ UNCHANGED caught

\* chromium.launch has resolved: lines 146-150, then initialize goes on to
\* this.browser.newPage()
LaunchDone(t) ==
  /\ ~exited
  /\ pc[t] = "launching"
  /\ Len(browsers) < MaxBrowsers
  /\ browsers' = Append(browsers, NewBrowser)
  /\ browserInstance' = Len(browsers) + 1
  /\ lastUsed' = clock
  /\ target' = [target EXCEPT ![t] = IF ctx[t] = "login" THEN 0 ELSE Len(browsers) + 1]
  /\ tools' = IF ctx[t] = "login" THEN tools
              ELSE [tools EXCEPT ![self[t]].browser = Len(browsers) + 1]
  /\ pc' = [pc EXCEPT ![t] = IF ctx[t] = "login" THEN "done" ELSE "newPage"]
  /\ UNCHANGED <<pages, ctx, self, idles>>
  /\ UNCHANGED <<globalRedNoteTools, isInitializing, attemptOf, got, exited>>
  /\ UNCHANGED <<clock, OutsideSession>>
  /\ UNCHANGED caught

\* chromium.launch has rejected: getBrowser and initialize throw (line 897 is
\* outside the try block)
LaunchFailed(t) ==
  /\ ~exited
  /\ pc[t] = "launching"
  /\ IF ctx[t] = "login"
       THEN Suspend(t, "failed")
       ELSE InitializeThrew(t)
  /\ UNCHANGED <<resourceVars, browserInstance, lastUsed, ctx, self, idles>>
  /\ UNCHANGED <<clock, OutsideSession>>
  /\ UNCHANGED caught

\* this.page = await this.browser.newPage() has settled
NewPageDone(t) ==
  /\ ~exited
  /\ pc[t] = "newPage"
  /\ IF browsers[target[t]].state = "open"
       THEN /\ Len(pages) < MaxPages
            /\ pages' = Append(pages, NewPage(target[t]))
            /\ tools' = [tools EXCEPT ![self[t]].page = Len(pages) + 1]
            /\ target' = [target EXCEPT ![t] = 0]
            /\ Suspend(t, "initializing")
            /\ UNCHANGED browsers
            /\ UNCHANGED caught
       ELSE \* newPage() has rejected, inside the try block
            /\ caught' = [caught EXCEPT ![t] = "InitializeError"]
            /\ CleanupPage(t, tools, pages, browsers)
  /\ UNCHANGED <<browserInstance, lastUsed, ctx, self, idles>>
  /\ UNCHANGED <<clock, OutsideSession>>

\* the page of the instance can still be worked with
PageUsable(T, P, B, inst) ==
  /\ T[inst].page # 0
  /\ P[T[inst].page].state = "open"
  /\ B[P[T[inst].page].browser].state = "open"

\* lines 905-1115 have run without an error
InitializeDone(t) ==
  /\ ~exited
  /\ pc[t] = "initializing"
  /\ PageUsable(tools, pages, browsers, self[t])
  /\ InitializeReturned(t)
  /\ UNCHANGED <<resourceVars, browserInstance, lastUsed, ctx, self, idles>>
  /\ UNCHANGED <<clock, OutsideSession>>
  /\ UNCHANGED caught

\* one of lines 905-1115 has thrown (page gone, navigation failed, not
\* logged in): catch { await this.cleanup(); throw error }
InitializeFailed(t) ==
  /\ ~exited
  /\ pc[t] = "initializing"
  /\ CleanupPage(t, tools, pages, browsers)
  /\ UNCHANGED <<browserInstance, lastUsed, ctx, self, idles>>
  /\ UNCHANGED <<clock, OutsideSession>>
  /\ caught' = [caught EXCEPT ![t] = "InitializeError"]

\* cleanup(): page.close() has settled; this.page = null
PageCloseDone(t) ==
  /\ ~exited
  /\ pc[t] = "cleanupPage"
  /\ CleanupBrowser(t, [tools EXCEPT ![self[t]].page = 0],
                    [pages EXCEPT ![target[t]].state = "closed"], browsers)
  /\ UNCHANGED <<browserInstance, lastUsed, ctx, self, idles>>
  /\ UNCHANGED <<clock, OutsideSession>>
  /\ UNCHANGED caught

\* cleanup(): browser.close() has settled; this.browser = null; finally
BrowserCloseDone(t) ==
  /\ ~exited
  /\ pc[t] = "cleanupBrowser"
  /\ browsers' = BrowserClosed(browsers, target[t])
  /\ pages' = PagesOfClosed(pages, target[t])
  /\ tools' = [tools EXCEPT ![self[t]] = NewTools]
  /\ target' = [target EXCEPT ![t] = 0]
  /\ CleanupReturned(t)
  /\ UNCHANGED <<browserInstance, lastUsed, ctx, self, idles>>
  /\ UNCHANGED <<clock, OutsideSession>>
  /\ UNCHANGED caught

PageCloseFailedMasks(t) ==
  /\ ~exited
  /\ pc[t] = "cleanupPage"
  /\ caught' = [caught EXCEPT ![t] = "PageCloseError"]
  /\ tools' = [tools EXCEPT ![self[t]] = NewTools]
  /\ target' = [target EXCEPT ![t] = 0]
  /\ CleanupReturned(t)
  /\ UNCHANGED <<pages, browsers, browserInstance, lastUsed, ctx, self, idles>>
  /\ UNCHANGED <<clock, OutsideSession>>

\* cleanup(): page.close() has rejected and left the page as it was;
\* .catch(err => log), this.page = null
PageCloseFailed(t) ==
  /\ ~exited
  /\ pc[t] = "cleanupPage"
  /\ CleanupBrowser(t, [tools EXCEPT ![self[t]].page = 0], pages, browsers)
  /\ UNCHANGED <<browserInstance, lastUsed, ctx, self, idles>>
  /\ UNCHANGED <<clock, OutsideSession>>
  /\ UNCHANGED caught

\* cleanup(): browser.close() has rejected and left the browser as it was;
\* .catch(err => log), this.browser = null; finally
BrowserCloseFailed(t) ==
  /\ ~exited
  /\ pc[t] = "cleanupBrowser"
  /\ tools' = [tools EXCEPT ![self[t]] = NewTools]
  /\ target' = [target EXCEPT ![t] = 0]
  /\ CleanupReturned(t)
  /\ UNCHANGED <<pages, browsers, browserInstance, lastUsed, ctx, self, idles>>
  /\ UNCHANGED <<clock, OutsideSession>>
  /\ UNCHANGED caught

\* tools.searchNotes(...) etc.: retryWithBackoff makes its first attempt,
\* which starts with await this.initialize()
RequestStart(t) ==
  /\ ~exited
  /\ pc[t] = "request"
  /\ IF got[t] = 0
       THEN \* getRedNoteTools returned null
            /\ Suspend(t, "failed")
            /\ UNCHANGED <<resourceVars, browserInstance, lastUsed, ctx>>
       ELSE /\ ctx' = [ctx EXCEPT ![t] = "attempt"]
            /\ attemptOf' = [attemptOf EXCEPT ![t] = 1]
            /\ GetBrowser(t, self[t], tools)
            /\ UNCHANGED <<globalRedNoteTools, isInitializing, got, exited>>
  /\ UNCHANGED <<pages, self, idles, clock, OutsideSession>>
  /\ UNCHANGED caught

\* the rest of the attempt (navigation, extraction) has succeeded
FetchDone(t) ==
  /\ ~exited
  /\ pc[t] = "fetch"
  /\ PageUsable(tools, pages, browsers, self[t])
  /\ Suspend(t, "done")
  /\ UNCHANGED <<resourceVars, browserInstance, lastUsed, ctx, self, idles>>
  /\ UNCHANGED <<clock, OutsideSession>>
  /\ UNCHANGED caught

\* the rest of the attempt has thrown
FetchFailed(t) ==
  /\ ~exited
  /\ pc[t] = "fetch"
  /\ AfterFailedAttempt(t)
  /\ UNCHANGED <<resourceVars, browserInstance, lastUsed, ctx, self, idles>>
  /\ UNCHANGED <<clock, OutsideSession>>
  /\ UNCHANGED caught

\* A setTimeout of a suspended invocation fires: the backoff of
\* retryWithBackoff (the next attempt starts with this.initialize()), or the
\* 100 ms poll of getRedNoteTools once isInitializing is false (lines 47-53).
TimerFired(t) ==
  /\ ~exited
  /\ pc[t] \in {"backoff", "polling"}
  /\ IF pc[t] = "backoff"
       THEN /\ attemptOf' = [attemptOf EXCEPT ![t] = attemptOf[t] + 1]
            /\ GetBrowser(t, self[t], tools)
            /\ UNCHANGED <<globalRedNoteTools, isInitializing, got, exited, ctx, self>>
       ELSE /\ ~isInitializing
            /\ IF globalRedNoteTools # 0 THEN ReturnExisting(t) ELSE Construct(t)
            /\ UNCHANGED <<attemptOf, exited>>
  /\ caught' = [caught EXCEPT ![t] = "none"]
  /\ UNCHANGED <<pages, idles, clock, OutsideSession>>

\* The tool handler returns its result or throws its error: the invocation
\* is over.
InvocationEnds(t) ==
  /\ ~exited
  /\ pc[t] \in {"done", "failed"}
  /\ pc' = [pc EXCEPT ![t] = "start"]
  /\ ctx' = [ctx EXCEPT ![t] = "none"]
  /\ self' = [self EXCEPT ![t] = 0]
  /\ attemptOf' = [attemptOf EXCEPT ![t] = 0]
  /\ got' = [got EXCEPT ![t] = 0]
  /\ UNCHANGED <<resourceVars, globalRedNoteTools, isInitializing, exited,
                 browserInstance, lastUsed, idles>>
  /\ UNCHANGED <<clock, OutsideSession>>
  /\ caught' = [caught EXCEPT ![t] = "none"]

\* SIGINT or SIGTERM arrives: the handler calls cleanupGlobalTools(), and
\* process.exit(0) once that has returned
Signal(t) ==
  /\ ~exited
  /\ pc[t] = "start"
  /\ ctx' = [ctx EXCEPT ![t] = "signal"]
  /\ IF globalRedNoteTools # 0
       THEN /\ self' = [self EXCEPT ![t] = globalRedNoteTools]
            /\ LET me == tools[globalRedNoteTools]
               IN IF me.page # 0
                    THEN /\ pages' = CloseCalled(pages, me.page, TRUE)
                         /\ target' = [target EXCEPT ![t] = me.page]
                         /\ Suspend(t, "cleanupPage")
                         /\ UNCHANGED <<tools, browsers>>
                    ELSE IF me.browser # 0
                      THEN /\ browsers' = CloseCalled(browsers, me.browser, TRUE)
                           /\ target' = [target EXCEPT ![t] = me.browser]
                           /\ Suspend(t, "cleanupBrowser")
                           /\ UNCHANGED <<tools, pages>>
                      ELSE /\ globalRedNoteTools' = 0
                           /\ exited' = TRUE
                           /\ pc' = [pc EXCEPT ![t] = "exited"]
                           /\ UNCHANGED <<isInitializing, attemptOf, got>>
                           /\ UNCHANGED resourceVars
       ELSE /\ exited' = TRUE
            /\ pc' = [pc EXCEPT ![t] = "exited"]
            /\ UNCHANGED <<globalRedNoteTools, isInitializing, attemptOf, got>>
            /\ UNCHANGED <<resourceVars, self>>
  /\ UNCHANGED <<browserInstance, lastUsed, idles>>
  /\ UNCHANGED <<clock, OutsideSession>>
  /\ UNCHANGED caught

\* the browser process dies or its window is closed by the user
BrowserDisconnects(b) ==
  /\ ~exited
  /\ b \in DOMAIN browsers
  /\ browsers[b].state = "open"
  /\ browsers' = [browsers EXCEPT ![b].state = "disconnected"]
  /\ pages' = PagesOfClosed(pages, b)
  /\ UNCHANGED <<tools, target, controlVars, browserInstance, lastUsed, ctx, self, idles>>
  /\ UNCHANGED <<clock, OutsideSession>>
  /\ UNCHANGED caught

\* nothing is called for a while
SessionIdle(d) ==
  /\ ~exited
  /\ idles < MaxIdles
  /\ browserInstance # 0
  /\ idles' = idles + 1
  /\ clock' = clock + d
  /\ UNCHANGED <<resourceVars, controlVars, browserInstance, lastUsed, ctx, self>>
  /\ UNCHANGED OutsideSession
  /\ UNCHANGED caught

SessionInit ==
  /\ globalRedNoteTools = 0
  /\ isInitializing = FALSE
  /\ tools = << >>
  /\ browserInstance = 0
  /\ lastUsed = 0
  /\ browsers = << >>
  /\ pages = << >>
  /\ pc = [t \in Threads |-> "start"]
  /\ ctx = [t \in Threads |-> "none"]
  /\ self = [t \in Threads |-> 0]
  /\ attemptOf = [t \in Threads |-> 0]
  /\ target = [t \in Threads |-> 0]
  /\ got = [t \in Threads |-> 0]
  /\ exited = FALSE
  /\ idles = 0
  /\ caught = [t \in Threads |-> "none"]

SessionNext ==
  \/ \E t \in Threads : ToolCall(t)
  \/ \E t \in Threads : LoginCall(t)
  \/ \E t \in Threads : StaleBrowserClosed(t)
  \/ \E t \in Threads : StaleBrowserCloseFailed(t)
  \/ \E t \in Threads : LaunchDone(t)
  \/ \E t \in Threads : LaunchFailed(t)
  \/ \E t \in Threads : NewPageDone(t)
  \/ \E t \in Threads : InitializeDone(t)
  \/ \E t \in Threads : InitializeFailed(t)
  \/ \E t \in Threads : PageCloseDone(t)
  \/ \E t \in Threads : BrowserCloseDone(t)
  \/ \E t \in Threads : RequestStart(t)
  \/ \E t \in Threads : FetchDone(t)
  \/ \E t \in Threads : FetchFailed(t)
  \/ \E t \in Threads : TimerFired(t)
  \/ \E t \in Threads : InvocationEnds(t)
  \/ \E t \in Threads : Signal(t)
  \/ \E b \in 1..MaxBrowsers : BrowserDisconnects(b)
  \/ \E d \in IdleSteps : SessionIdle(d)

\* tool invocations whose initialize() fails, with close() calls of
\* cleanup() that fail too; no signals, no login tool, no idle periods
TeardownNext ==
  \/ \E t \in Threads : ToolCall(t)
  \/ \E t \in Threads : StaleBrowserClosed(t)
  \/ \E t \in Threads : StaleBrowserCloseFailed(t)
  \/ \E t \in Threads : LaunchDone(t)
  \/ \E t \in Threads : LaunchFailed(t)
  \/ \E t \in Threads : NewPageDone(t)
  \/ \E t \in Threads : InitializeDone(t)
  \/ \E t \in Threads : InitializeFailed(t)
  \/ \E t \in Threads : PageCloseDone(t)
  \/ \E t \in Threads : PageCloseFailed(t)
  \/ \E t \in Threads : BrowserCloseDone(t)
  \/ \E t \in Threads : BrowserCloseFailed(t)
  \/ \E t \in Threads : RequestStart(t)
  \/ \E t \in Threads : FetchDone(t)
  \/ \E t \in Threads : FetchFailed(t)
  \/ \E t \in Threads : TimerFired(t)
  \/ \E t \in Threads : InvocationEnds(t)
  \/ \E b \in 1..MaxBrowsers : BrowserDisconnects(b)

\* ------------------------------------------------------------------------
\* extractRedBookUrl
\* ------------------------------------------------------------------------
\* [a-zA-Z0-9\/]
XhslinkChars == {"S", "a"}

\* [^，\s]
XiaohongshuChars == TextPieces \ {" "}

\* the regular expression matches at position i: https?, the host, and at
\* least one character of the class
MatchesAt(text, i, host, chars) ==
  /\ i + 2 <= Len(text)
  /\ text[i] = "S"
  /\ text[i + 1] = host
  /\ text[i + 2] \in chars

\* String.match tries the positions from left to right; 0 when none matches
RECURSIVE FirstMatchFrom(_, _, _, _)
FirstMatchFrom(text, i, host, chars) ==
  IF i > Len(text) THEN 0
  ELSE IF MatchesAt(text, i, host, chars) THEN i
  ELSE FirstMatchFrom(text, i + 1, host, chars)

\* the + is greedy: the last position of the run of class characters from j
RECURSIVE RunEnd(_, _, _)
RunEnd(text, j, chars) ==
  IF j + 1 <= Len(text) /\ text[j + 1] \in chars
    THEN RunEnd(text, j + 1, chars)
    ELSE j

\* match[1], or Null when the expression does not match
MatchOf(text, host, chars) ==
  LET i == FirstMatchFrom(text, 1, host, chars)
  IN IF i = 0 THEN Null ELSE SubSeq(text, i, RunEnd(text, i + 2, chars))

ExtractRedBookUrlRedFirst(shareText) ==
  LET xiaohongshuMatch == MatchOf(shareText, "w", XiaohongshuChars)
      xhslinkMatch == MatchOf(shareText, "x", XhslinkChars)
  IN IF xiaohongshuMatch # Null THEN xiaohongshuMatch
     ELSE IF xhslinkMatch # Null THEN xhslinkMatch
     ELSE shareText

ExtractRedBookUrl(shareText) ==
  LET xhslinkMatch == MatchOf(shareText, "x", XhslinkChars)
      xiaohongshuMatch == MatchOf(shareText, "w", XiaohongshuChars)
  IN IF xhslinkMatch # Null THEN xhslinkMatch
     ELSE IF xiaohongshuMatch # Null THEN xiaohongshuMatch
     ELSE shareText

\* extractRedBookUrl(text)
ExtractUrl(text) ==
  /\ uPc = "idle"
  /\ uPc' = "once"
  /\ uText' = text
  /\ uOut' = ExtractRedBookUrl(text)
  /\ UNCHANGED uAgain
  /\ UNCHANGED OutsideUrl

\* extractRedBookUrl(extractRedBookUrl(text))
ExtractUrlAgain ==
  /\ uPc = "once"
  /\ uPc' = "twice"
  /\ uAgain' = ExtractRedBookUrl(uOut)
  /\ UNCHANGED <<uText, uOut>>
  /\ UNCHANGED OutsideUrl

UrlInit ==
  /\ uPc = "idle"
  /\ uText = << >>
  /\ uOut = << >>
  /\ uAgain = << >>

UrlNext ==
  \/ \E text \in Texts : ExtractUrl(text)
  \/ ExtractUrlAgain

\* ------------------------------------------------------------------------
\* a content request: searchNotes / getNoteContent / getNoteComments
\* ------------------------------------------------------------------------
\* checkRateLimit() has returned in this step, or is suspended. When it has
\* returned, a read request enters retryWithBackoff (attempt = 1) and the
\* operation runs to its first await; a publish request is inside its
\* attempt already and goes on with it.
AfterAdmission(r, k, trace) ==
  IF rlPc'[r] = "idle"
    THEN /\ qPc' = [qPc EXCEPT ![r] = "fetching"]
         /\ qTrace' = [qTrace EXCEPT ![r] = Append(trace, "fetch")]
         /\ qAttempt' = [qAttempt EXCEPT ![r] = IF k = PublishKey THEN @ ELSE 1]
    ELSE /\ qPc' = [qPc EXCEPT ![r] = "admission"]
         /\ qTrace' = [qTrace EXCEPT ![r] = trace]
         /\ UNCHANGED qAttempt

RequestCallAdmitsHits(r, k) ==
  /\ qPc[r] = "idle"
  /\ qKey' = [qKey EXCEPT ![r] = k]
  /\ qIssuedAt' = [qIssuedAt EXCEPT ![r] = clock]
  /\ qSeenStamp' = [qSeenStamp EXCEPT ![r] = contentCache[k].timestamp]
  /\ CacheRead(k)
  /\ CheckRateLimitEnters(r)
  /\ LET cached == CachedLookup(contentCache, k, clock)
     IN IF cached # Null /\ rlPc'[r] = "idle"
          THEN /\ qPc' = [qPc EXCEPT ![r] = "returned"]
               /\ qResult' = [qResult EXCEPT ![r] = cached]
               /\ qTrace' = [qTrace EXCEPT ![r] = <<"cache">>]
               /\ UNCHANGED qAttempt
          ELSE /\ AfterAdmission(r, k, <<"cache", "admission">>)
               /\ UNCHANGED qResult
  /\ UNCHANGED <<clock, qStoredAt, qWake, qTicks, OutsideRequest>>

\* searchNotes, getNoteContent or getNoteComments is called: the cache
\* lookup, and on a miss checkRateLimit up to its first suspension.
RequestCall(r, k) ==
  /\ qPc[r] = "idle"
  /\ qKey' = [qKey EXCEPT ![r] = k]
  /\ qIssuedAt' = [qIssuedAt EXCEPT ![r] = clock]
  /\ qSeenStamp' = [qSeenStamp EXCEPT ![r] = contentCache[k].timestamp]
  /\ CacheRead(k)
  /\ LET cached == CachedLookup(contentCache, k, clock)
     IN IF cached # Null
          THEN /\ qPc' = [qPc EXCEPT ![r] = "returned"]
               /\ qResult' = [qResult EXCEPT ![r] = cached]
               /\ qTrace' = [qTrace EXCEPT ![r] = <<"cache">>]
               /\ UNCHANGED <<rateVars, qAttempt>>
          ELSE /\ CheckRateLimitEnters(r)
               /\ AfterAdmission(r, k, <<"cache", "admission">>)
               /\ UNCHANGED qResult
  /\ UNCHANGED <<clock, qStoredAt, qWake, qTicks, OutsideRequest>>

\* an attempt of publishNote starts: await this.checkRateLimit()
PublishAttempt(r, n) ==
  /\ qAttempt' = [qAttempt EXCEPT ![r] = n]
  /\ CheckRateLimitEnters(r)
  /\ IF rlPc'[r] = "idle"
       THEN /\ qPc' = [qPc EXCEPT ![r] = "fetching"]
            /\ qTrace' = [qTrace EXCEPT ![r] = qTrace[r] \o <<"admission", "fetch">>]
       ELSE /\ qPc' = [qPc EXCEPT ![r] = "admission"]
            /\ qTrace' = [qTrace EXCEPT ![r] = Append(qTrace[r], "admission")]

\* publishNote is called with valid arguments: retryWithBackoff makes its
\* first attempt.
PublishCall(r) ==
  /\ qPc[r] = "idle"
  /\ qKey' = [qKey EXCEPT ![r] = PublishKey]
  /\ qIssuedAt' = [qIssuedAt EXCEPT ![r] = clock]
  /\ PublishAttempt(r, 1)
  /\ UNCHANGED <<clock, cacheVars, qSeenStamp, qStoredAt, qResult, qWake, qTicks,
                 OutsideRequest>>

\* A timer of checkRateLimit fires for the request.
AdmissionWaitDone(r) ==
  /\ qPc[r] = "admission"
  /\ HourlyTimerFires(r) \/ IntervalTimerFires(r)
  /\ AfterAdmission(r, qKey[r], qTrace[r])
  /\ UNCHANGED <<clock, cacheVars, qKey, qIssuedAt, qSeenStamp, qStoredAt, qResult, qWake,
                 qTicks, OutsideRequest>>

\* An attempt of the operation succeeds: setCachedContent (not in
\* publishNote), and the result goes back to the caller.
OperationSucceeds(r, v) ==
  /\ qPc[r] = "fetching"
  /\ IF qKey[r] = PublishKey
       THEN UNCHANGED <<cacheVars, qStoredAt>>
       ELSE /\ CacheWrite(qKey[r], v)
            /\ qStoredAt' = [qStoredAt EXCEPT ![r] = clock]
  /\ qResult' = [qResult EXCEPT ![r] = v]
  /\ qPc' = [qPc EXCEPT ![r] = "returned"]
  /\ UNCHANGED <<clock, rateVars, qKey, qTrace, qIssuedAt, qSeenStamp, qAttempt, qWake,
                 qTicks, OutsideRequest>>

OperationFailsAfterStore(r, jitter) ==
  /\ qPc[r] = "fetching"
  /\ qKey[r] # PublishKey
  /\ CacheWrite(qKey[r], "v1")
  /\ qPc' = [qPc EXCEPT ![r] = "threw"]
  /\ UNCHANGED <<clock, rateVars, qKey, qTrace, qIssuedAt, qSeenStamp, qStoredAt,
                 qResult, qAttempt, qWake, qTicks, OutsideRequest>>

\* An attempt of the operation throws, before its setCachedContent:
\* retryWithBackoff rethrows after the last attempt and sleeps otherwise.
OperationFails(r, jitter) ==
  /\ qPc[r] = "fetching"
  /\ IF LastAttempt(qAttempt[r], DEFAULT_MAX_RETRIES)
       THEN /\ qPc' = [qPc EXCEPT ![r] = "threw"]
            /\ UNCHANGED qWake
       ELSE /\ qPc' = [qPc EXCEPT ![r] = "backoff"]
            /\ qWake' = [qWake EXCEPT ![r] = clock + BackoffDelay(qAttempt[r], jitter)]
  /\ UNCHANGED <<clock, rateVars, cacheVars, qKey, qTrace, qIssuedAt, qSeenStamp, qStoredAt,
                 qResult, qAttempt, qTicks, OutsideRequest>>

\* The backoff setTimeout has fired: attempt++ and the operation is called
\* again. The operation of publishNote starts with checkRateLimit, the
\* operations of the read requests with initialize().
RetryAttempt(r) ==
  /\ qPc[r] = "backoff"
  /\ clock >= qWake[r]
  /\ IF qKey[r] = PublishKey
       THEN PublishAttempt(r, qAttempt[r] + 1)
       ELSE /\ qAttempt' = [qAttempt EXCEPT ![r] = qAttempt[r] + 1]
            /\ qPc' = [qPc EXCEPT ![r] = "fetching"]
            /\ qTrace' = [qTrace EXCEPT ![r] = Append(qTrace[r], "fetch")]
            /\ UNCHANGED rateVars
  /\ UNCHANGED <<clock, cacheVars, qKey, qIssuedAt, qSeenStamp, qStoredAt, qResult, qWake,
                 qTicks, OutsideRequest>>

\* time passes, while a fetch runs or nothing does: not beyond a pending
\* timer, whose callback runs when it is due
RequestTick(d) ==
  /\ qTicks < MaxRequestTicks
  /\ \A w \in PendingWakes : clock + d <= w
  /\ qTicks' = qTicks + 1
  /\ clock' = clock + d
  /\ UNCHANGED <<rateVars, cacheVars, qPc, qKey, qTrace, qIssuedAt, qSeenStamp, qStoredAt,
                 qResult, qAttempt, qWake, OutsideRequest>>

RequestInit ==
  /\ qPc = [r \in Clients |-> "idle"]
  /\ qKey = [r \in Clients |-> Null]
  /\ qTrace = [r \in Clients |-> << >>]
  /\ qIssuedAt = [r \in Clients |-> -1]
  /\ qSeenStamp = [r \in Clients |-> -1]
  /\ qStoredAt = [r \in Clients |-> -1]
  /\ qResult = [r \in Clients |-> Null]
  /\ qAttempt = [r \in Clients |-> 0]
  /\ qWake = [r \in Clients |-> 0]
  /\ qTicks = 0

\* read requests whose fetches succeed, minutes apart
RequestNext ==
  \/ \E r \in Clients, k \in CacheKeys : RequestCall(r, k)
  \/ \E r \in Clients : AdmissionWaitDone(r)
  \/ \E r \in Clients, v \in ResultValues : OperationSucceeds(r, v)
  \/ \E d \in RequestSteps : RequestTick(d)
  \/ RateAdvance

\* requests of all four operations whose attempts may fail, issued in a
\* burst: time passes from timer to timer
AttemptNext ==
  \/ \E r \in Clients, k \in CacheKeys : RequestCall(r, k)
  \/ \E r \in Clients : PublishCall(r)
  \/ \E r \in Clients : AdmissionWaitDone(r)
  \/ \E r \in Clients, v \in ResultValues : OperationSucceeds(r, v)
  \/ \E r \in Clients, jitter \in JitterExtremes : OperationFails(r, jitter)
  \/ \E r \in Clients : RetryAttempt(r)
  \/ RateAdvance

\* ------------------------------------------------------------------------
\* smartDelay
\* ------------------------------------------------------------------------
PEAK_BASE_DELAY == 15000

NORMAL_BASE_DELAY == 10000

\* new Date().getHours()
Hours == 0..23

\* Math.random() * 5000, in whole milliseconds
RandomDelaySamples == {0, 2500, 4999}

\* const isPeakHour = hour >= 20 || hour <= 23
IsPeakHour(hour) ==
  hour >= 20 \/ hour <= 23

\* const baseDelay = isPeakHour ? 15000 : 10000
BaseDelay(hour) ==
  IF IsPeakHour(hour) THEN PEAK_BASE_DELAY ELSE NORMAL_BASE_DELAY

\* const randomDelay = Math.random() * 5000 + baseDelay
RandomDelay(hour, random) ==
  random + BaseDelay(hour)

\* smartDelay() up to its await: setTimeout(resolve, randomDelay)
SmartDelayCall(hour, random) ==
  /\ sdPc \in {"idle", "done"}
  /\ sdHour' = hour
  /\ sdRandom' = random
  /\ sdDelay' = RandomDelay(hour, random)
  /\ sdPc' = "sleeping"
  /\ UNCHANGED OutsideDelay

\* the timer fires and smartDelay() returns
SmartDelayDone ==
  /\ sdPc = "sleeping"
  /\ sdPc' = "done"
  /\ UNCHANGED <<sdHour, sdRandom, sdDelay>>
  /\ UNCHANGED OutsideDelay

DelayInit ==
  /\ sdPc = "idle"
  /\ sdHour = 0
  /\ sdRandom = 0
  /\ sdDelay = 0

DelayNext ==
  \/ \E hour \in Hours, random \in RandomDelaySamples : SmartDelayCall(hour, random)
  \/ SmartDelayDone

\* ------------------------------------------------------------------------
\* AuthManager.login
\* ------------------------------------------------------------------------
\* const maxRetries = 3
LOGIN_MAX_RETRIES == 3

\* setTimeout(resolve, 2000)
LOGIN_RETRY_DELAY == 2000

NoLoginOutcome == [kind |-> "none", error |-> "none"]

\* the while loop is entered: this.context = await this.browser.newContext()
LoginAttemptStarts ==
  /\ lgAttempts' = lgAttempts + 1
  /\ lgPc' = "newContext"

\* the catch block after both close calls: retryCount++; sleep or give up
LoginAfterClose(C, P) ==
  /\ lgContexts' = C
  /\ lgPages' = P
  /\ lgRetryCount' = lgRetryCount + 1
  /\ IF lgRetryCount + 1 < LOGIN_MAX_RETRIES
       THEN /\ lgSleeps' = Append(lgSleeps, LOGIN_RETRY_DELAY)
            /\ lgPc' = "sleeping"
            /\ UNCHANGED lgOutcome
       ELSE /\ lgOutcome' = [kind |-> "threw", error |-> "MaxRetries"]
            /\ lgPc' = "threw"
            /\ UNCHANGED lgSleeps

\* the catch block from `if (this.context) await this.context.close()` on
LoginCatchContext(P) ==
  IF lgContext # 0
    THEN /\ lgPc' = "closeContext"
         /\ lgPages' = P
         /\ UNCHANGED <<lgContexts, lgRetryCount, lgSleeps, lgOutcome>>
    ELSE LoginAfterClose(lgContexts, P)

\* catch (error), lines 240-243: this.page and this.context are whatever the
\* fields hold, of this attempt or of an earlier one
LoginCatch(error) ==
  /\ lgCaught' = error
  /\ IF lgPage # 0
       THEN /\ lgPc' = "closePage"
            /\ UNCHANGED <<lgContexts, lgPages, lgRetryCount, lgSleeps, lgOutcome>>
       ELSE LoginCatchContext(lgPages)

\* an error leaves the catch block: login() rejects with it
LoginCatchThrows(error) ==
  /\ lgOutcome' = [kind |-> "threw", error |-> error]
  /\ lgPc' = "threw"

\* login() up to this.browser = await this.getBrowser()
LoginStart ==
  /\ lgPc = "idle"
  /\ lgPc' = "getBrowser"
  /\ UNCHANGED <<lgRetryCount, lgContext, lgPage, lgContexts, lgPages, lgAttempts,
                 lgSleeps, lgSaves, lgCaught, lgOutcome>>
  /\ UNCHANGED OutsideLogin

\* getBrowser() has returned: retryCount = 0, first attempt
LoginBrowserAcquired ==
  /\ lgPc = "getBrowser"
  /\ LoginAttemptStarts
  /\ UNCHANGED <<lgRetryCount, lgContext, lgPage, lgContexts, lgPages,
                 lgSleeps, lgSaves, lgCaught, lgOutcome>>
  /\ UNCHANGED OutsideLogin

\* getBrowser() has thrown (chromium.launch rejected), outside the try block
LoginBrowserRejected ==
  /\ lgPc = "getBrowser"
  /\ lgOutcome' = [kind |-> "threw", error |-> "LaunchFailed"]
  /\ lgPc' = "threw"
  /\ UNCHANGED <<lgRetryCount, lgContext, lgPage, lgContexts, lgPages, lgAttempts,
                 lgSleeps, lgSaves, lgCaught>>
  /\ UNCHANGED OutsideLogin

\* newContext() has resolved: this.page = await this.context.newPage()
LoginNewContextDone ==
  /\ lgPc = "newContext"
  /\ lgContexts' = Append(lgContexts, "open")
  /\ lgContext' = Len(lgContexts) + 1
  /\ lgPc' = "newPage"
  /\ UNCHANGED <<lgRetryCount, lgPage, lgPages, lgAttempts, lgSleeps, lgSaves,
                 lgCaught, lgOutcome>>
  /\ UNCHANGED OutsideLogin

LoginNewContextFailed ==
  /\ lgPc = "newContext"
  /\ LoginCatch("NewContextFailed")
  /\ UNCHANGED <<lgContext, lgPage, lgAttempts, lgSaves>>
  /\ UNCHANGED OutsideLogin

\* newPage() has resolved: cookies, goto, the login checks and waits follow
LoginNewPageDone ==
  /\ lgPc = "newPage"
  /\ lgPages' = Append(lgPages, [context |-> lgContext, state |-> "open"])
  /\ lgPage' = Len(lgPages) + 1
  /\ lgPc' = "working"
  /\ UNCHANGED <<lgRetryCount, lgContext, lgContexts, lgAttempts, lgSleeps, lgSaves,
                 lgCaught, lgOutcome>>
  /\ UNCHANGED OutsideLogin

LoginNewPageFailed ==
  /\ lgPc = "newPage"
  /\ LoginCatch("NewPageFailed")
  /\ UNCHANGED <<lgContext, lgPage, lgAttempts, lgSaves>>
  /\ UNCHANGED OutsideLogin

\* lines 177-229 have found the user logged in (at once, line 197, or after
\* the QR code was scanned, line 228) and context.cookies() has resolved:
\* await this.cookieManager.saveCookies(newCookies)
LoginCookiesRead ==
  /\ lgPc = "working"
  /\ lgPc' = "saving"
  /\ UNCHANGED <<lgRetryCount, lgContext, lgPage, lgContexts, lgPages, lgAttempts,
                 lgSleeps, lgSaves, lgCaught, lgOutcome>>
  /\ UNCHANGED OutsideLogin

\* one of lines 177-235 has thrown: loadCookies, addCookies, goto, a selector
\* wait that timed out, 'Login verification failed', context.cookies()
LoginAttemptFailed ==
  /\ lgPc = "working"
  /\ LoginCatch("AttemptFailed")
  /\ UNCHANGED <<lgContext, lgPage, lgAttempts, lgSaves>>
  /\ UNCHANGED OutsideLogin

\* saveCookies has resolved: return
LoginSaveDone ==
  /\ lgPc = "saving"
  /\ lgSaves' = lgSaves + 1
  /\ lgOutcome' = [kind |-> "returned", error |-> "none"]
  /\ lgPc' = "returned"
  /\ UNCHANGED <<lgRetryCount, lgContext, lgPage, lgContexts, lgPages, lgAttempts,
                 lgSleeps, lgCaught>>
  /\ UNCHANGED OutsideLogin

LoginSaveFailed ==
  /\ lgPc = "saving"
  /\ LoginCatch("SaveFailed")
  /\ UNCHANGED <<lgContext, lgPage, lgAttempts, lgSaves>>
  /\ UNCHANGED OutsideLogin

\* catch block: this.page.close() has resolved
LoginPageCloseDone ==
  /\ lgPc = "closePage"
  /\ LoginCatchContext([lgPages EXCEPT ![lgPage].state = "closed"])
  /\ UNCHANGED <<lgContext, lgPage, lgAttempts, lgSaves, lgCaught>>
  /\ UNCHANGED OutsideLogin

\* catch block: this.page.close() has rejected
LoginPageCloseFailed ==
  /\ lgPc = "closePage"
  /\ LoginCatchThrows("PageCloseFailed")
  /\ UNCHANGED <<lgRetryCount, lgContext, lgPage, lgContexts, lgPages, lgAttempts,
                 lgSleeps, lgSaves, lgCaught>>
  /\ UNCHANGED OutsideLogin

\* catch block: this.context.close() has resolved; it closes the pages of
\* the context too
LoginContextCloseDone ==
  /\ lgPc = "closeContext"
  /\ LoginAfterClose([lgContexts EXCEPT ![lgContext] = "closed"],
                     [p \in DOMAIN lgPages |->
                        IF lgPages[p].context = lgContext
                          THEN [lgPages[p] EXCEPT !.state = "closed"]
                          ELSE lgPages[p]])
  /\ UNCHANGED <<lgContext, lgPage, lgAttempts, lgSaves, lgCaught>>
  /\ UNCHANGED OutsideLogin

\* catch block: this.context.close() has rejected
LoginContextCloseFailed ==
  /\ lgPc = "closeContext"
  /\ LoginCatchThrows("ContextCloseFailed")
  /\ UNCHANGED <<lgRetryCount, lgContext, lgPage, lgContexts, lgPages, lgAttempts,
                 lgSleeps, lgSaves, lgCaught>>
  /\ UNCHANGED OutsideLogin

\* the 2 s timer fires: while (retryCount < maxRetries), next attempt
LoginRetryTimerFired ==
  /\ lgPc = "sleeping"
  /\ lgRetryCount < LOGIN_MAX_RETRIES
  /\ LoginAttemptStarts
  /\ UNCHANGED <<lgRetryCount, lgContext, lgPage, lgContexts, lgPages,
                 lgSleeps, lgSaves, lgCaught, lgOutcome>>
  /\ UNCHANGED OutsideLogin

LoginInit ==
  /\ lgPc = "idle"
  /\ lgRetryCount = 0
  /\ lgContext = 0
  /\ lgPage = 0
  /\ lgContexts = << >>
  /\ lgPages = << >>
  /\ lgAttempts = 0
  /\ lgSleeps = << >>
  /\ lgSaves = 0
  /\ lgCaught = "none"
  /\ lgOutcome = NoLoginOutcome

LoginNext ==
  \/ LoginStart
  \/ LoginBrowserAcquired
  \/ LoginBrowserRejected
  \/ LoginNewContextDone
  \/ LoginNewContextFailed
  \/ LoginNewPageDone
  \/ LoginNewPageFailed
  \/ LoginCookiesRead
  \/ LoginAttemptFailed
  \/ LoginSaveDone
  \/ LoginSaveFailed
  \/ LoginPageCloseDone
  \/ LoginPageCloseFailed
  \/ LoginContextCloseDone
  \/ LoginContextCloseFailed
  \/ LoginRetryTimerFired

\* ------------------------------------------------------------------------
\* CreatorPlatformAccess.accessCreatorPlatform
\* ------------------------------------------------------------------------
\* const maxAttempts = 180
MAX_ATTEMPTS == 180

\* if (attempts % 15 === 0)
REPORT_EVERY == 15

\* What page.url() returns, by the substrings the code tests:
\*   login    it contains 'login'
\*   creator  it contains 'creator.xiaohongshu.com'
\*   publish  it contains 'publish'
\*   site     it contains 'xiaohongshu.com'
Url(login, creator, publish, site) ==
  [login |-> login, creator |-> creator, publish |-> publish, site |-> site]

\* https://creator.xiaohongshu.com/login, https://creator.xiaohongshu.com/new/home,
\* https://creator.xiaohongshu.com/publish/publish,
\* https://www.xiaohongshu.com/explore, about:blank
Urls == {Url(TRUE, TRUE, FALSE, TRUE), Url(FALSE, TRUE, FALSE, TRUE),
         Url(FALSE, TRUE, TRUE, TRUE), Url(FALSE, FALSE, FALSE, TRUE),
         Url(FALSE, FALSE, FALSE, FALSE)}

\* const isLoggedIn, lines 513-516
IsLoggedInUrl(url) ==
  ~url.login /\ (url.creator \/ url.publish \/ ~url.site)

WaitLoopEndsOneLate(attempts) ==
  ~(attempts <= MAX_ATTEMPTS)

\* while (attempts < maxAttempts) is left
WaitLoopEnds(attempts) ==
  ~(attempts < MAX_ATTEMPTS)

\* accessCreatorPlatform: catch (error) { log; return false }, lines 38-41
OuterCatch ==
  /\ cpResult' = "false"
  /\ cpPc' = "returned"

\* attemptCreatorPlatformAccess has returned success (also from its catch
\* block or that of accessViaMainSite, as false): lines 31-37
AccessReturns(success) ==
  /\ cpResult' = IF success THEN "true" ELSE "false"
  /\ cpPc' = "returned"

\* waitForManualLogin() is called: attempts = 0, first waitForTimeout(2000)
WaitForManualLogin(caller) ==
  /\ cpCaller' = caller
  /\ cpAttempts' = 0
  /\ cpSeen' = FALSE
  /\ cpWait' = "none"
  /\ cpWaits' = cpWaits + 1
  /\ cpPc' = "polling"

\* waitForManualLogin() has returned false: attemptCreatorPlatformAccess goes
\* on to accessViaMainSite (line 488), accessViaMainSite to the direct
\* access of line 632
WaitReturnsFalse ==
  /\ cpWait' = "false"
  /\ cpPc' = IF cpCaller = "direct" THEN "mainSite" ELSE "fallback"
  /\ UNCHANGED cpResult

\* the while loop of waitForManualLogin comes round
WaitLoop(attempts) ==
  IF WaitLoopEnds(attempts)
    THEN WaitReturnsFalse
    ELSE /\ cpPc' = "polling"
         /\ UNCHANGED <<cpWait, cpResult>>

\* a page call inside waitForManualLogin has thrown: the method has no
\* handler, the catch block of its caller returns false (lines 492-495,
\* 650-653)
WaitThrows ==
  /\ cpWait' = "threw"
  /\ AccessReturns(FALSE)

\* accessCreatorPlatform() up to await this.cleanAutomationTraces()
AccessCreatorPlatform ==
  /\ cpPc = "idle"
  /\ cpPc' = "cleaning"
  /\ UNCHANGED <<cpCaller, cpAttempts, cpSeen, cpWait, cpWaits, cpResult>>
  /\ UNCHANGED OutsideCreator

\* cleanAutomationTraces has returned: await this.establishNormalUserSession()
CleanDone ==
  /\ cpPc = "cleaning"
  /\ cpPc' = "establishing"
  /\ UNCHANGED <<cpCaller, cpAttempts, cpSeen, cpWait, cpWaits, cpResult>>
  /\ UNCHANGED OutsideCreator

\* cleanAutomationTraces or establishNormalUserSession has thrown
SetupFailed ==
  /\ cpPc \in {"cleaning", "establishing"}
  /\ OuterCatch
  /\ UNCHANGED <<cpCaller, cpAttempts, cpSeen, cpWait, cpWaits>>
  /\ UNCHANGED OutsideCreator

\* establishNormalUserSession has returned: attemptCreatorPlatformAccess
\* goes to the creator homepage
EstablishDone ==
  /\ cpPc = "establishing"
  /\ cpPc' = "direct"
  /\ UNCHANGED <<cpCaller, cpAttempts, cpSeen, cpWait, cpWaits, cpResult>>
  /\ UNCHANGED OutsideCreator

\* lines 461-484: the page has loaded and currentUrl is read
DirectAccessSettled(url) ==
  /\ cpPc = "direct"
  /\ IF ~url.login
       THEN /\ cpPc' = "navigating"
            /\ UNCHANGED <<cpCaller, cpAttempts, cpSeen, cpWait, cpWaits>>
       ELSE WaitForManualLogin("direct")
  /\ UNCHANGED cpResult
  /\ UNCHANGED OutsideCreator

\* goto or waitForTimeout has thrown in attemptCreatorPlatformAccess,
\* accessViaMainSite or navigateToPublishPage: each returns false from its
\* catch block
AccessStepFailed ==
  /\ cpPc \in {"direct", "mainSite", "fallback", "navigating"}
  /\ AccessReturns(FALSE)
  /\ UNCHANGED <<cpCaller, cpAttempts, cpSeen, cpWait, cpWaits>>
  /\ UNCHANGED OutsideCreator

\* waitForTimeout(2000) has resolved: attempts++, the URL is tested, and
\* every 15th attempt the page is scrolled
PollTimerFired(url) ==
  /\ cpPc = "polling"
  /\ cpAttempts' = cpAttempts + 1
  /\ IF IsLoggedInUrl(url)
       THEN /\ cpSeen' = TRUE
            /\ cpPc' = "settling"
            /\ UNCHANGED <<cpWait, cpResult>>
       ELSE /\ UNCHANGED cpSeen
            /\ IF (cpAttempts + 1) % REPORT_EVERY = 0
                 THEN /\ cpPc' = "scrolling"
                      /\ UNCHANGED <<cpWait, cpResult>>
                 ELSE WaitLoop(cpAttempts + 1)
  /\ UNCHANGED <<cpCaller, cpWaits>>
  /\ UNCHANGED OutsideCreator

\* page.evaluate(scrollBy) has resolved
ScrollDone ==
  /\ cpPc = "scrolling"
  /\ WaitLoop(cpAttempts)
  /\ UNCHANGED <<cpCaller, cpAttempts, cpSeen, cpWaits>>
  /\ UNCHANGED OutsideCreator

\* waitForTimeout or evaluate has thrown inside waitForManualLogin
WaitStepFailed ==
  /\ cpPc \in {"polling", "scrolling", "settling"}
  /\ WaitThrows
  /\ UNCHANGED <<cpCaller, cpAttempts, cpSeen, cpWaits>>
  /\ UNCHANGED OutsideCreator

\* waitForTimeout(3000) has resolved: waitForManualLogin returns true and
\* its caller goes to navigateToPublishPage
SettleDone ==
  /\ cpPc = "settling"
  /\ cpWait' = "true"
  /\ cpPc' = "navigating"
  /\ UNCHANGED <<cpCaller, cpAttempts, cpSeen, cpWaits, cpResult>>
  /\ UNCHANGED OutsideCreator

\* accessViaMainSite, lines 583-629: the main site has loaded,
\* clickPublishButton has returned and the URL is read
MainSiteSettled(clicked, url) ==
  /\ cpPc = "mainSite"
  /\ IF clicked
       THEN IF url.creator
              THEN /\ cpPc' = "navigating"
                   /\ UNCHANGED <<cpCaller, cpAttempts, cpSeen, cpWait, cpWaits>>
              ELSE IF url.login
                THEN WaitForManualLogin("mainSite")
                ELSE /\ cpPc' = "navigating"
                     /\ UNCHANGED <<cpCaller, cpAttempts, cpSeen, cpWait, cpWaits>>
       ELSE /\ cpPc' = "fallback"
            /\ UNCHANGED <<cpCaller, cpAttempts, cpSeen, cpWait, cpWaits>>
  /\ UNCHANGED cpResult
  /\ UNCHANGED OutsideCreator

\* accessViaMainSite, lines 632-648: the direct access has loaded
FallbackSettled(url) ==
  /\ cpPc = "fallback"
  /\ IF ~url.login
       THEN /\ cpPc' = "navigating"
            /\ UNCHANGED cpResult
       ELSE AccessReturns(FALSE)
  /\ UNCHANGED <<cpCaller, cpAttempts, cpSeen, cpWait, cpWaits>>
  /\ UNCHANGED OutsideCreator

\* navigateToPublishPage has loaded the publish page: false when the final
\* URL contains 'login', else true
NavigateDone(url) ==
  /\ cpPc = "navigating"
  /\ AccessReturns(~url.login)
  /\ UNCHANGED <<cpCaller, cpAttempts, cpSeen, cpWait, cpWaits>>
  /\ UNCHANGED OutsideCreator

CreatorInit ==
  /\ cpPc = "idle"
  /\ cpCaller = "none"
  /\ cpAttempts = 0
  /\ cpSeen = FALSE
  /\ cpWait = "none"
  /\ cpWaits = 0
  /\ cpResult = "none"

CreatorNext ==
  \/ AccessCreatorPlatform
  \/ CleanDone
  \/ SetupFailed
  \/ EstablishDone
  \/ \E url \in Urls : DirectAccessSettled(url)
  \/ AccessStepFailed
  \/ \E url \in Urls : PollTimerFired(url)
  \/ ScrollDone
  \/ WaitStepFailed
  \/ SettleDone
  \/ \E clicked \in BOOLEAN, url \in Urls : MainSiteSettled(clicked, url)
  \/ \E url \in Urls : FallbackSettled(url)
  \/ \E url \in Urls : NavigateDone(url)

RateInit ==
  /\ lastRequestTime = 0
  /\ requestCount = 0
  /\ requestTimestamps = << >>
  /\ rlPc = [c \in Clients |-> "idle"]
  /\ rlNow = [c \in Clients |-> 0]
  /\ rlWake = [c \in Clients |-> 0]
  /\ rlOverlaps = 0

Init ==
  /\ clock = StartTime
  /\ RateInit
  /\ RetryInit
  /\ CacheInit
  /\ ExtractInit
  /\ SessionInit
  /\ UrlInit
  /\ RequestInit
  /\ DelayInit
  /\ LoginInit
  /\ CreatorInit

RateNext ==
  \/ \E c \in Clients : CheckRateLimit(c)
  \/ \E c \in Clients : HourlyWaitDone(c)
  \/ \E c \in Clients : IntervalWaitDone(c)
  \/ RateAdvance

RateSpec == Init /\ [][RateNext]_vars

\* the timers of setTimeout fire: a due callback runs, and time reaches the
\* next timer
RateFairSpec ==
  /\ RateSpec
  /\ WF_vars(RateAdvance)
  /\ \A c \in Clients : WF_vars(HourlyWaitDone(c)) /\ WF_vars(IntervalWaitDone(c))

RetrySpec == Init /\ [][RetryNext]_vars

CacheSpec == Init /\ [][CacheNext]_vars

ExtractSpec == Init /\ [][ExtractNext]_vars

SessionSpec == Init /\ [][SessionNext]_vars

TeardownSpec == Init /\ [][TeardownNext]_vars

UrlSpec == Init /\ [][UrlNext]_vars

RequestSpec == Init /\ [][RequestNext]_vars

AttemptSpec == Init /\ [][AttemptNext]_vars

DelaySpec == Init /\ [][DelayNext]_vars

LoginSpec == Init /\ [][LoginNext]_vars

CreatorSpec == Init /\ [][CreatorNext]_vars

\* ------------------------------------------------------------------------
\* Claims on the shared session
\* ------------------------------------------------------------------------
\* the invocation has called getRedNoteTools()
CalledGetRedNoteTools(t) ==
  pc[t] = "request" \/ ctx[t] \in {"construct", "attempt"}

\* the invocation is the one that constructs, and getRedNoteTools() has not
\* returned to it
StillConstructing(t) ==
  ctx[t] = "construct" /\ got[t] = 0

\* C1: however many callers invoke getRedNoteTools() concurrently while no
\* instance exists, one construction occurs and all callers receive the same
\* instance: no second RedNoteTools is ever constructed, no caller is parked
\* waiting for another, every caller but the constructing one holds the one
\* instance as soon as it has called, and the constructing one holds it once
\* its initialize() has returned.
C1_OneConstructionOneInstance ==
  /\ Len(tools) <= 1
  /\ Cardinality({t \in Threads : StillConstructing(t)}) <= 1
  /\ \A t \in Threads :
       /\ pc[t] # "polling"
       /\ got[t] \in {0, 1}
       /\ (CalledGetRedNoteTools(t) /\ ~StillConstructing(t)) => got[t] = 1
       /\ (ctx[t] = "construct" /\ pc[t] = "request") => got[t] = 1

C1_Witness ==
  /\ Len(tools) = 1
  /\ ~isInitializing
  /\ \A t \in Threads : got[t] = 1
  /\ \E t \in Threads : ctx[t] = "construct" /\ pc[t] = "request"
  /\ \E t \in Threads : ctx[t] = "attempt" /\ pc[t] = "fetch"

\* C2: at most one browser that has been launched and not yet closed exists
\* at any time.
C2_AtMostOneLiveBrowser ==
  Cardinality({b \in DOMAIN browsers : browsers[b].state = "open"}) <= 1

\* C10: over all runs of the signal handlers together, close() is invoked at
\* most once on the shared page and at most once on the shared browser.
C10_CloseAtMostOnce ==
  /\ \A p \in DOMAIN pages : pages[p].signalCloseCalls <= 1
  /\ \A b \in DOMAIN browsers : browsers[b].signalCloseCalls <= 1

\* C11: getRedNoteTools() never returns an instance whose initialize() has
\* not yet completed: no invocation holds the instance while the
\* construction is still in flight.
C11_NeverReturnedWhileConstructing ==
  \A t \in Threads : got[t] # 0 => ~isInitializing

\* C12: when the construction has failed, no instance is held any more:
\* the caller that constructed has the error and globalRedNoteTools is null.
C12_FailedConstructionDropsInstance ==
  \A t \in Threads :
    (ctx[t] = "construct" /\ pc[t] = "failed") => globalRedNoteTools = 0

\* the invocation is between `isInitializing = true` (line 53) and the
\* finally block that clears it (line 61)
InConstructionSection(t) ==
  ctx[t] = "construct" /\ pc[t] \notin {"request", "failed"}

\* C21: at most one caller is inside the construction section at any time,
\* the flag isInitializing is true exactly while one is, and a caller enters
\* the section only in a step that starts with the flag false.
C21_OneCallerInConstruction ==
  /\ [](/\ Cardinality({t \in Threads : InConstructionSection(t)}) <= 1
        /\ isInitializing <=> \E t \in Threads : InConstructionSection(t))
  /\ [][\A t \in Threads :
          (~InConstructionSection(t) /\ InConstructionSection(t)') =>
             ~isInitializing /\ isInitializing']_vars

\* one caller is constructing and the other has called getRedNoteTools()
\* meanwhile
C21_Witness ==
  \E t \in Threads, u \in Threads :
    /\ InConstructionSection(t)
    /\ pc[t] = "initializing"
    /\ u # t
    /\ CalledGetRedNoteTools(u)

\* C22: whenever a construction ends, by success or by a thrown error,
\* isInitializing is false afterwards, and the caller either holds the
\* instance or has the error.
C22_FlagClearedWhenConstructionEnds ==
  [][\A t \in Threads :
       (InConstructionSection(t) /\ ~InConstructionSection(t)') =>
          /\ ~isInitializing'
          /\ pc'[t] \in {"request", "failed"}
          /\ pc'[t] = "request" => got'[t] = globalRedNoteTools']_vars

\* a construction has ended with an error and the flag is false
C22_Witness ==
  \E t \in Threads :
    /\ ctx[t] = "construct"
    /\ pc[t] = "failed"
    /\ ~isInitializing

\* the pcs from which an invocation calls getBrowser()
GetBrowserEntry == {"start", "request", "backoff", "polling"}

\* getBrowser() returns to invocation t in this step
GetBrowserReturns(t) ==
  /\ pc[t] \in GetBrowserEntry \cup {"launching"}
  /\ pc'[t] = "newPage" \/ (ctx'[t] = "login" /\ pc'[t] = "done")

\* C18: getBrowser() returns the shared browser without launching exactly
\* when one is held, connected and used within BROWSER_TIMEOUT; otherwise
\* the held one is closed, the static instance is cleared and a browser is
\* launched; the browser handed out is connected and not expired.
C18_OnlyValidBrowserHandedOut ==
  [][\A t \in Threads :
       /\ GetBrowserReturns(t) =>
            /\ browserInstance' # 0
            /\ browsers'[browserInstance'].state = "open"
            /\ clock - lastUsed' <= BROWSER_TIMEOUT
            /\ ctx'[t] # "login" => tools'[self'[t]].browser = browserInstance'
            /\ IF pc[t] = "launching"
                 THEN /\ Len(browsers') = Len(browsers) + 1
                      /\ browserInstance' = Len(browsers')
                 ELSE /\ browsers' = browsers
                      /\ browserInstance' = browserInstance
                      /\ browserInstance # 0
                      /\ browsers[browserInstance].state = "open"
                      /\ clock - lastUsed <= BROWSER_TIMEOUT
       /\ (pc[t] \in GetBrowserEntry /\ pc'[t] \in {"closingStale", "launching"}) =>
            /\ \/ browserInstance = 0
               \/ browsers[browserInstance].state # "open"
               \/ clock - lastUsed > BROWSER_TIMEOUT
            /\ pc'[t] = "closingStale" <=> browserInstance # 0
            /\ pc'[t] = "closingStale" => target'[t] = browserInstance
       /\ (pc[t] = "closingStale" /\ pc'[t] # "closingStale") =>
            /\ browsers'[target[t]].state = "closed" \/ browsers' = browsers
            /\ browserInstance' = 0
            /\ pc'[t] = "launching"]_vars

C18_Witness ==
  /\ Len(browsers) = 2
  /\ browsers[1].state = "closed"
  /\ browsers[2].state = "open"
  /\ browserInstance = 2
  /\ idles = 1
  /\ clock - lastUsed <= BROWSER_TIMEOUT
  /\ \E t \in Threads : pc[t] = "newPage" /\ target[t] = 2 /\ attemptOf[t] = 2

\* C29: every getBrowser() call that returns a browser sets lastUsed to the
\* current time, and nothing else changes lastUsed; so a connected browser
\* is torn down by getBrowser() only when more than BROWSER_TIMEOUT has
\* passed since it was last handed out.
C29_LeaseRefreshesLastUsed ==
  [][/\ \A t \in Threads : GetBrowserReturns(t) => lastUsed' = clock
     /\ lastUsed' # lastUsed => \E t \in Threads : GetBrowserReturns(t)
     /\ \A t \in Threads :
          (/\ pc[t] \in GetBrowserEntry
           /\ pc'[t] = "closingStale"
           /\ browsers[browserInstance].state = "open") =>
             clock - lastUsed > BROWSER_TIMEOUT]_vars

\* the one browser has been handed out again after each of two idle periods
\* of 30 minutes
C29_Witness ==
  /\ idles = MaxIdles
  /\ clock = StartTime + MaxIdles * BROWSER_TIMEOUT
  /\ Len(browsers) = 1
  /\ browsers[1].state = "open"
  /\ browserInstance = 1
  /\ lastUsed = clock
  /\ \E t \in Threads : pc[t] = "newPage" /\ target[t] = 1 /\ ctx[t] = "attempt"

\* C30: the teardown of an expired or disconnected browser is best-effort:
\* whether its close() returns or throws, the caller of getBrowser() gets no
\* error from it, the static browser instance is null afterwards, and the
\* call goes on to launch a browser.
C30_TeardownBestEffort ==
  [][\A t \in Threads :
       (pc[t] = "closingStale" /\ pc'[t] # "closingStale") =>
          /\ browserInstance' = 0
          /\ pc'[t] = "launching"
          /\ ctx'[t] = ctx[t]
          /\ isInitializing' = isInitializing]_vars

\* close() of the only browser, which had disconnected, has thrown: the
\* static instance is cleared and the caller is launching
C30_Witness ==
  /\ Len(browsers) = 1
  /\ browsers[1].state = "disconnected"
  /\ browserInstance = 0
  /\ \E t \in Threads : pc[t] = "launching" /\ ctx[t] = "attempt"

\* ------------------------------------------------------------------------
\* Claims on extractRedBookUrl
\* ------------------------------------------------------------------------
\* the links of one kind contained in a text, as <<first, last>> positions:
\* http or https, the host and the longest run of link characters after it
LinksIn(text, host, chars) ==
  {<<i, j>> \in (1..Len(text)) \X (1..Len(text)) :
     /\ j >= i + 2
     /\ text[i] = "S" /\ text[i + 1] = host
     /\ \A k \in (i + 2)..j : text[k] \in chars
     /\ j = Len(text) \/ text[j + 1] \notin chars}

FirstLinkIn(text, host, chars) ==
  LET l == CHOOSE m \in LinksIn(text, host, chars) :
             \A n \in LinksIn(text, host, chars) : m[1] <= n[1]
  IN SubSeq(text, l[1], l[2])

\* the text is exactly one link of the kind
IsLink(text, host, chars) ==
  LinksIn(text, host, chars) = {<<1, Len(text)>>}

\* the result is the first xhslink.com link, else the first xiaohongshu.com
\* link, else the text
ReturnsFirstLink ==
  uOut = IF LinksIn(uText, "x", XhslinkChars) # {}
           THEN FirstLinkIn(uText, "x", XhslinkChars)
         ELSE IF LinksIn(uText, "w", XiaohongshuChars) # {}
           THEN FirstLinkIn(uText, "w", XiaohongshuChars)
         ELSE uText

\* C20 as stated: the first xhslink.com link, else the first xiaohongshu.com
\* link, else the text; a text that is exactly one link of either kind is
\* returned unchanged; the second application changes nothing.
C20_FirstLinkAndEveryLinkUnchanged ==
  uPc \in {"once", "twice"} =>
    /\ ReturnsFirstLink
    /\ (IsLink(uText, "x", XhslinkChars) \/ IsLink(uText, "w", XiaohongshuChars)) =>
         uOut = uText
    /\ uPc = "twice" => uAgain = uOut

\* C20 amended: as above, but a text that is exactly one xiaohongshu.com
\* link is returned unchanged only if it contains no xhslink.com link.
C20_FirstLinkIdempotent ==
  uPc \in {"once", "twice"} =>
    /\ ReturnsFirstLink
    /\ IsLink(uText, "x", XhslinkChars) => uOut = uText
    /\ (IsLink(uText, "w", XiaohongshuChars) /\ LinksIn(uText, "x", XhslinkChars) = {}) =>
         uOut = uText
    /\ uPc = "twice" => uAgain = uOut

C20_Witness ==
  /\ uPc = "twice"
  /\ uText = <<"a", "S", "w", "a", "?">>
  /\ uOut = <<"S", "w", "a", "?">>
  /\ uAgain = uOut

\* ------------------------------------------------------------------------
\* Claims on the admission state
\* ------------------------------------------------------------------------
InWindow(ts) == {i \in DOMAIN ts : clock - ts[i] < HOUR}

\* C3: no rolling one-hour window holds more than MAX_REQUESTS_PER_HOUR
\* granted timestamps.
C3_QuotaInvariant ==
  Cardinality(InWindow(requestTimestamps)) <= MAX_REQUESTS_PER_HOUR

\* C4: consecutive granted timestamps are at least MIN_INTERVAL apart.
C4_MinInterval ==
  \A i \in 1..(Len(requestTimestamps) - 1) :
    requestTimestamps[i + 1] - requestTimestamps[i] >= MIN_INTERVAL

\* C13: when the requests pass through checkRateLimit one after another,
\* the request granted after MAX_REQUESTS_PER_HOUR others is granted no
\* earlier than one hour after the first of them.
C13_QuotaDelaysNextRequest ==
  rlOverlaps = 0 =>
    \A i \in DOMAIN requestTimestamps :
      (i + MAX_REQUESTS_PER_HOUR) \in DOMAIN requestTimestamps =>
        requestTimestamps[i + MAX_REQUESTS_PER_HOUR] - requestTimestamps[i] >= HOUR

C13_Witness ==
  /\ rlOverlaps = 0
  /\ Len(requestTimestamps) = MAX_REQUESTS_PER_HOUR + 1
  /\ requestTimestamps[1] = StartTime
  /\ \A c \in Clients : rlPc[c] = "idle"

\* C25: in one checkRateLimit() call the hourly check comes first: with the
\* quota used up the call is suspended for the hourly wait whether or not the
\* interval is too short as well; when that wait is over and the interval
\* was too short, the call is suspended again, for the interval remainder
\* counted from the end of the hourly wait (the sum of both waits); and the
\* timestamp recorded is the time at which the call's last suspension ended.
C25_HourlyThenIntervalThenStamp ==
  [][\A c \in Clients :
       /\ (rlPc[c] = "idle" /\ rlPc'[c] # "idle"
              /\ Len(PruneTimestamps(requestTimestamps, clock)) >= MAX_REQUESTS_PER_HOUR) =>
            /\ rlPc'[c] = "hourlyWait"
            /\ rlWake'[c] = PruneTimestamps(requestTimestamps, clock)[1] + HOUR + HOURLY_MARGIN
            /\ requestCount' = requestCount
       /\ (rlPc[c] = "hourlyWait" /\ rlPc'[c] # "hourlyWait") =>
            /\ clock >= rlWake[c]
            /\ IF rlNow[c] - lastRequestTime < MIN_INTERVAL
                 THEN /\ rlPc'[c] = "intervalWait"
                      /\ rlWake'[c] = clock + MIN_INTERVAL - (rlNow[c] - lastRequestTime)
                      /\ requestCount' = requestCount
                 ELSE rlPc'[c] = "idle"
       /\ (rlPc[c] # "idle" /\ rlPc'[c] = "idle") =>
            /\ clock >= rlWake[c]
            /\ lastRequestTime' = clock
            /\ requestTimestamps' = Append(requestTimestamps, clock)
            /\ requestCount' = requestCount + 1]_vars

\* the call made right after the 20th grant has been granted after both
\* waits, one after the other
C25_Witness ==
  /\ rlOverlaps = 0
  /\ Len(requestTimestamps) = MAX_REQUESTS_PER_HOUR + 1
  /\ \A c \in Clients : rlPc[c] = "idle"
  /\ LET ts == requestTimestamps
         n == MAX_REQUESTS_PER_HOUR
     IN ts[n + 1] - ts[n] = (HOUR - (ts[n] - ts[1]) + HOURLY_MARGIN) + MIN_INTERVAL

\* C26: under any interleaving of checkRateLimit() calls requestTimestamps
\* is non-decreasing in insertion order and holds no time of the future, so
\* its first element is the oldest timestamp held.
C26_TimestampsNonDecreasing ==
  /\ \A i \in DOMAIN requestTimestamps : \A j \in DOMAIN requestTimestamps :
       i < j => requestTimestamps[i] <= requestTimestamps[j]
  /\ \A i \in DOMAIN requestTimestamps :
       requestTimestamps[1] <= requestTimestamps[i] /\ requestTimestamps[i] <= clock

\* calls have overlapped and have all been granted, some of them after one
\* that was made later
C26_Witness ==
  /\ rlOverlaps = MaxOverlaps
  /\ \A c \in Clients : rlPc[c] = "idle"
  /\ Len(requestTimestamps) >= MaxOverlaps + 1
  /\ \E i \in DOMAIN requestTimestamps :
       i > 1 /\ requestTimestamps[i] = requestTimestamps[i - 1]

\* a step in which a call of checkRateLimit completes
Granted ==
  /\ requestCount' = requestCount + 1
  /\ lastRequestTime' = clock
  /\ Len(requestTimestamps') >= 1
  /\ requestTimestamps'[Len(requestTimestamps')] = clock
  /\ Len(requestTimestamps') <= Len(requestTimestamps) + 1
  /\ \A i \in 1..(Len(requestTimestamps') - 1) :
       \E j \in DOMAIN requestTimestamps : requestTimestamps[j] = requestTimestamps'[i]

\* C17: every call of checkRateLimit that is suspended completes, and a
\* completing call records exactly one new timestamp, the time of its
\* completion; no step records anything else.
C17_EveryCallGranted ==
  /\ \A c \in Clients : (rlPc[c] # "idle") ~> (rlPc[c] = "idle")
  /\ [][/\ \A c \in Clients : (rlPc[c] # "idle" /\ rlPc'[c] = "idle") => Granted
        /\ requestCount' # requestCount => Granted
        /\ (requestCount' = requestCount /\ requestTimestamps' # requestTimestamps) =>
             requestTimestamps' = PruneTimestamps(requestTimestamps, clock)]_vars

C17_Witness ==
  /\ requestCount = MaxRequests
  /\ rlOverlaps > 0
  /\ \A c \in Clients : rlPc[c] = "idle"

\* ------------------------------------------------------------------------
\* Claims on retryWithBackoff
\* ------------------------------------------------------------------------
Failures(log) == {i \in DOMAIN log : ~log[i].ok}

\* C5: success on attempt k after k-1 failures returns that attempt's value
\* after exactly k invocations and k-1 sleeps, the sleep after failed attempt
\* a lasting at least 2^a * 1000 ms and less than 2^a * 1000 + 1000 ms.
C5_SuccessOnAttemptK ==
  rtOutcome.kind = "returned" =>
    LET k == Len(rtLog)
    IN /\ k >= 1 /\ k <= rtMax
       /\ Failures(rtLog) = 1..(k - 1)
       /\ rtOutcome.value = rtLog[k].value
       /\ Len(rtSleeps) = k - 1
       /\ \A a \in 1..(k - 1) :
            /\ rtSleeps[a] >= Pow2(a) * 1000
            /\ rtSleeps[a] < Pow2(a) * 1000 + 1000

C5_Witness ==
  /\ rtOutcome.kind = "returned"
  /\ rtMax = DEFAULT_MAX_RETRIES
  /\ Len(rtLog) = DEFAULT_MAX_RETRIES
  /\ rtSleeps = <<2999, 4000>>

TypedErrors == {"RetriesExhausted", "ResourceUnavailable"}

C24_AllAttemptsFail ==
  rtOutcome.kind = "threw" =>
    /\ rtPc \in {"settled", "done"}
    /\ Len(rtLog) = rtMax
    /\ \A a \in 1..rtMax : ~rtLog[a].ok /\ rtLog[a].value.attempt = a
    /\ Len(rtSleeps) = rtMax - 1
    /\ rtOutcome.value = rtLog[rtMax].value

C24_Witness ==
  /\ rtOutcome.kind = "threw"
  /\ rtMax = DEFAULT_MAX_RETRIES
  /\ rtSleeps = <<2000, 4999>>
  /\ rtOutcome.value = [type |-> "Error", attempt |-> DEFAULT_MAX_RETRIES]

\* ------------------------------------------------------------------------
\* Claims on the content cache
\* ------------------------------------------------------------------------
\* C7: a get issued at the time of the last set of its key returns the value
\* set, and a get issued CACHE_TTL or more after it returns null.
C7_CacheRoundTrip ==
  \A k \in CacheKeys :
    (cacheLastGet[k] # NoOp /\ cacheLastGet[k].since # NoOp) =>
      LET get == cacheLastGet[k]
          set == cacheLastGet[k].since
      IN /\ (get.at = set.at) => (get.result = set.data)
         /\ (get.at - set.at >= CACHE_TTL) => (get.result = Null)

C7_Witness ==
  /\ cacheLastGet["note:u1"] # NoOp
  /\ cacheLastGet["note:u1"].since # NoOp
  /\ cacheLastGet["note:u1"].at = cacheLastGet["note:u1"].since.at
  /\ cacheLastGet["note:u1"].result = "v2"
  /\ cacheLastGet["comments:u1"] # NoOp
  /\ cacheLastGet["comments:u1"].since # NoOp
  /\ cacheLastGet["comments:u1"].at - cacheLastGet["comments:u1"].since.at = CACHE_TTL
  /\ cacheLastGet["comments:u1"].result = Null

\* C27: getCachedContent never changes the cache, and what it returns
\* depends on the last setCachedContent of the key only: that value until
\* CACHE_TTL after that call, null from then on, whatever was read in
\* between; setCachedContent(k, v) replaces the entry of k by v with the
\* current time and touches no other entry.
C27_NoRefreshAndOverwrite ==
  [][\A k \in CacheKeys :
       /\ cacheLastGet'[k] # cacheLastGet[k] =>
            /\ contentCache' = contentCache
            /\ cacheLastGet'[k].result =
                 IF cacheLastSet[k] # NoOp /\ clock - cacheLastSet[k].at < CACHE_TTL
                   THEN cacheLastSet[k].data
                   ELSE Null
       /\ cacheLastSet'[k] # cacheLastSet[k] =>
            /\ contentCache'[k] = [data |-> cacheLastSet'[k].data, timestamp |-> clock]
            /\ \A other \in CacheKeys \ {k} : contentCache'[other] = contentCache[other]
       /\ contentCache'[k] # contentCache[k] => cacheLastSet'[k].at = clock]_vars

\* an entry has been hit, and a later read, CACHE_TTL after it was stored,
\* has returned null
C27_Witness ==
  \E k \in CacheKeys :
    /\ cacheLastGet[k] # NoOp
    /\ cacheLastGet[k].hitBefore
    /\ cacheLastGet[k].result = Null
    /\ cacheLastGet[k].at - cacheLastGet[k].since.at = CACHE_TTL

\* ------------------------------------------------------------------------
\* Claims on the comment extraction
\* ------------------------------------------------------------------------
Yielding(page) == {n \in 1..NumStrategies : StrategyResult(n, page) # Null}

FirstYielding(page) == CHOOSE n \in Yielding(page) : \A m \in Yielding(page) : n <= m

\* C8: the strategies run in their fixed order and the first one that yields
\* a candidate supplies all candidates; no later strategy runs, nothing is
\* merged.
C8_FirstStrategyWins ==
  xPc \in {"items", "returned"} =>
    IF Yielding(xPage) = {}
      THEN xTried = <<1, 2, 3>> /\ xUsed = 0 /\ xResults = << >>
      ELSE LET s == FirstYielding(xPage)
           IN /\ xUsed = s
              /\ xTried = [n \in 1..s |-> n]
              /\ xItems = StrategyResult(s, xPage)

C8_Witness ==
  /\ xPc = "returned"
  /\ xUsed = 2
  /\ xTried = <<1, 2>>
  /\ StrategyResult(1, xPage) = Null
  /\ StrategyResult(3, xPage) # Null
  /\ StrategyResult(3, xPage) # xItems
  /\ Len(xResults) = 1

\* the candidates processed so far for which an author or a content was
\* extracted
WithAuthorOrContent ==
  SelectSeq(SubSeq(xItems, 1, xIndex),
            LAMBDA p : xPage[p].author # "" \/ xPage[p].content # "")

\* C19: every record returned comes from a candidate with a non-empty
\* extracted author or a non-empty extracted content, in the order of the
\* candidates; candidates with both empty leave no record, so there are never
\* more records than candidates of the winning strategy.
C19_OnlyMeaningfulRecords ==
  xPc \in {"items", "returned"} /\ xItems # Null =>
    /\ Len(xResults) <= Len(WithAuthorOrContent)
    /\ Len(WithAuthorOrContent) <= Len(xItems)
    /\ \A r \in DOMAIN xResults :
         /\ xResults[r].author # ""
         /\ xResults[r].content # "" \/ xResults[r].author # "Unknown"
         /\ \E i \in DOMAIN WithAuthorOrContent :
              /\ i >= r
              /\ xResults[r].content = xPage[WithAuthorOrContent[i]].content
              /\ xPage[WithAuthorOrContent[i]].author \in {xResults[r].author, ""}

C19_Witness ==
  /\ xPc = "returned"
  /\ Len(xItems) = 2
  /\ Len(xResults) = 1
  /\ xResults[1] = [author |-> "bob", content |-> ""]
  /\ \E i \in DOMAIN xItems : xPage[xItems[i]].author = "" /\ xPage[xItems[i]].content = ""

\* C9: the extraction never fails: whatever the page, it returns a sequence
\* of records.
C9_ExtractionNeverFails ==
  xPc # "threw"

\* ------------------------------------------------------------------------
\* claims about one content request
\* ------------------------------------------------------------------------
Issued(r) == qPc[r] # "idle"

ServedFromCache(r) == qTrace[r] = <<"cache">>

PassedAdmission(r) == Len(qTrace[r]) >= 2 /\ qTrace[r][2] = "admission"

\* the scenario's distance between the two requests: 31 minutes
ScenarioGap == CACHE_TTL + 60000

\* r1 and then, 31 minutes later, r2 asked for the same thing, and nobody
\* else did
ScenarioPair(r1, r2) ==
  /\ r1 # r2
  /\ Issued(r1)
  /\ Issued(r2)
  /\ qKey[r1] \in CacheKeys
  /\ qKey[r1] = qKey[r2]
  /\ qIssuedAt[r2] = qIssuedAt[r1] + ScenarioGap
  /\ \A r \in Clients \ {r1, r2} : Issued(r) => qKey[r] # qKey[r1]

\* C14: an identical request issued at t = 0 and again at t = 31 min causes
\* two fetches, whatever the first one's admission wait and fetch took: the
\* second one is not served from the cache.
C14_TwoFetchesAfterTtl ==
  \A r1 \in Clients, r2 \in Clients :
    ScenarioPair(r1, r2) => ~ServedFromCache(r1) /\ ~ServedFromCache(r2)

\* C14, as the code has it: the entry is stamped when the fetch stores it, so
\* the request at t = 31 min is served from the cache exactly when it finds
\* the first one's entry stored later than t = 1 min; otherwise it passes
\* admission and fetches. The first request is never served from the cache.
C14_SecondFetchesUnlessStoredLate ==
  \A r1 \in Clients, r2 \in Clients :
    ScenarioPair(r1, r2) =>
      /\ ~ServedFromCache(r1)
      /\ qSeenStamp[r2] \in {-1, qStoredAt[r1]}
      /\ ServedFromCache(r2) <=>
           /\ qSeenStamp[r2] >= 0
           /\ qSeenStamp[r2] > qIssuedAt[r1] + (ScenarioGap - CACHE_TTL)
      /\ ~ServedFromCache(r2) => PassedAdmission(r2)

\* the first request's result was stored exactly at t = 1 min, the second one
\* found that entry expired and has fetched as well
C14_Witness ==
  \E r1 \in Clients, r2 \in Clients :
    /\ ScenarioPair(r1, r2)
    /\ qStoredAt[r1] = qIssuedAt[r1] + (ScenarioGap - CACHE_TTL)
    /\ qSeenStamp[r2] = qStoredAt[r1]
    /\ qPc[r2] = "returned"
    /\ qStoredAt[r2] >= qIssuedAt[r2]

\* C15: of two identical requests that both returned a result, the second
\* issued within CACHE_TTL of the first, only one has fetched: the other one
\* was a cache hit, also when it was issued before the first had completed.
C15_SecondIsCacheHit ==
  \A r1 \in Clients, r2 \in Clients :
    /\ r1 # r2
    /\ qPc[r1] = "returned"
    /\ qPc[r2] = "returned"
    /\ qKey[r1] \in CacheKeys
    /\ qKey[r1] = qKey[r2]
    /\ qIssuedAt[r1] <= qIssuedAt[r2]
    /\ qIssuedAt[r2] - qIssuedAt[r1] < CACHE_TTL
    => ServedFromCache(r1) \/ ServedFromCache(r2)

\* the order the claim gives to the steps of one request
ClaimedOrder == <<"admission", "cache", "fetch">>

\* C16: the steps of a request happen in the order admission check, cache
\* check, retry-wrapped fetch: what a request has done so far is a prefix of
\* that order.
C16_AdmissionThenCacheThenFetch ==
  \A r \in Clients :
    /\ Len(qTrace[r]) <= Len(ClaimedOrder)
    /\ qTrace[r] = SubSeq(ClaimedOrder, 1, Len(qTrace[r]))

\* ------------------------------------------------------------------------
\* claims about the attempts of a request
\* ------------------------------------------------------------------------
\* C23: every fetch attempt, the retried ones included, is preceded by its
\* own checkRateLimit() call: in what a request has done, each fetch comes
\* directly after an admission check.
C23_EveryAttemptAdmitted ==
  \A r \in Clients : \A i \in 1..Len(qTrace[r]) :
    qTrace[r][i] = "fetch" => (i > 1 /\ qTrace[r][i - 1] = "admission")

\* the request stores its result in this step
StoresResult(r) ==
  /\ qPc[r] = "fetching"
  /\ qPc'[r] = "returned"
  /\ qKey[r] \in CacheKeys
  /\ contentCache' = [contentCache EXCEPT ![qKey[r]] =
                        [data |-> qResult'[r], timestamp |-> clock]]

\* C28: the cache is written only in the step in which an attempt succeeds,
\* with the value the request returns; an attempt that fails, retried or
\* not, leaves the cache as it is, and so does publishNote.
C28_CacheWrittenOnSuccessOnly ==
  [][/\ contentCache' # contentCache => \E r \in Clients : StoresResult(r)
     /\ \A r \in Clients :
          /\ (qPc[r] = "fetching" /\ qPc'[r] \in {"backoff", "threw"}) =>
               contentCache' = contentCache
          /\ (qPc[r] = "fetching" /\ qPc'[r] = "returned" /\ qKey[r] \in CacheKeys) =>
               StoresResult(r)]_vars

\* one request has failed three times and left no entry, another one has
\* stored what it returned on a retried attempt
C28_Witness ==
  \E r1 \in Clients, r2 \in Clients :
    /\ qPc[r1] = "threw"
    /\ qKey[r1] \in CacheKeys
    /\ qKey[r2] \in CacheKeys \ {qKey[r1]}
    /\ contentCache[qKey[r1]] = NoEntry
    /\ qPc[r2] = "returned"
    /\ qAttempt[r2] = 2
    /\ contentCache[qKey[r2]] = [data |-> qResult[r2], timestamp |-> qStoredAt[r2]]

\* ------------------------------------------------------------------------
\* claims about the teardown of the session and about its sharing
\* ------------------------------------------------------------------------
\* the invocation is inside initialize(), after the browser was acquired
InsideInitialize(t) ==
  /\ ctx[t] \in {"construct", "attempt"}
  /\ pc[t] \in {"newPage", "initializing", "cleanupPage", "cleanupBrowser"}

\* C31: when initialize() fails after the browser was acquired, it runs
\* cleanup() first and then throws the error that made it fail, whether the
\* close() calls of cleanup() succeed or fail; when it throws, this.page and
\* this.browser of the instance are both null.
C31_TeardownThenOriginalError ==
  /\ [](\A t \in Threads :
          (ctx[t] # "signal" /\ pc[t] \in {"cleanupPage", "cleanupBrowser"}) =>
            caught[t] = "InitializeError")
  /\ [][\A t \in Threads :
          /\ (InsideInitialize(t) /\ pc'[t] \in {"failed", "backoff"}) =>
               /\ caught'[t] = "InitializeError"
               /\ tools'[self[t]] = NewTools
          /\ (InsideInitialize(t) /\ pc[t] \in {"newPage", "initializing"}
                /\ pc'[t] \in {"failed", "backoff"}) =>
               tools[self[t]] = NewTools]_vars

\* the first construction has failed after its page was opened, both close()
\* calls of the cleanup have failed as well (page and browser are still
\* open), and the caller has the error of initialize()
C31_Witness ==
  \E t \in Threads :
    /\ ctx[t] = "construct"
    /\ pc[t] = "failed"
    /\ caught[t] = "InitializeError"
    /\ Len(tools) = 1
    /\ tools[1] = NewTools
    /\ Len(pages) = 1
    /\ pages[1].state = "open"
    /\ Len(browsers) = 1
    /\ browsers[1].state = "open"

\* a run of a signal handler that has called cleanup() on the global instance
TeardownStarted(t) ==
  ctx[t] = "signal" /\ self[t] # 0

\* C32: process.exit is reached only when no close() started by a signal
\* handler is still pending, and the handlers together call the teardown of
\* the global instance at most once.
C32_ExitAfterSingleTeardown ==
  /\ exited => \A t \in Threads :
                 TeardownStarted(t) => pc[t] \notin {"cleanupPage", "cleanupBrowser"}
  /\ Cardinality({t \in Threads : TeardownStarted(t)}) <= 1

\* the request works with the session: from its initialize() to the end of
\* its fetch attempt
UsingSession(t) ==
  /\ ctx[t] \in {"construct", "attempt"}
  /\ pc[t] \in {"initializing", "fetch"}

\* C33: while a request is using the shared session, no step of another
\* request replaces the page of the instance or closes its browser.
C33_SessionNotDisturbedWhileInUse ==
  [][\A t \in Threads, u \in Threads :
       (/\ t # u
        /\ UsingSession(t)
        /\ pc'[t] = pc[t]
        /\ pc'[u] # pc[u]
        /\ ctx'[u] \in {"construct", "attempt"}
        /\ self[u] = self[t]) =>
          /\ tools'[self[t]].page = tools[self[t]].page
          /\ \A b \in DOMAIN browsers :
               (browsers[b].state = "open" /\ tools[self[t]].browser = b) =>
                 browsers'[b].state # "closed"]_vars

\* no run of a signal handler has started
NoShutdown ==
  \A t \in Threads : ctx[t] # "signal"

\* C36: as long as no shutdown runs, isInitializing is never true while
\* globalRedNoteTools is null at a point where another caller can run, and
\* no caller is in the polling loop.
C36_FlagImpliesInstance ==
  NoShutdown =>
    /\ ~(isInitializing /\ globalRedNoteTools = 0)
    /\ \A t \in Threads : pc[t] # "polling"

\* while the construction is in flight, a second caller has been handed the
\* instance at line 64 without waiting
C36_Witness ==
  /\ NoShutdown
  /\ isInitializing
  /\ \E t \in Threads, u \in Threads :
       /\ InConstructionSection(t)
       /\ ctx[u] = "none"
       /\ pc[u] = "request"
       /\ got[u] = globalRedNoteTools
       /\ got[u] = self[t]

\* C37: every page that is open is the page an instance references, so an
\* instance has at most one open page: a page that is no longer referenced
\* has been closed.
C37_UnreferencedPagesClosed ==
  \A p \in DOMAIN pages :
    pages[p].state = "open" => \E i \in DOMAIN tools : tools[i].page = p

\* ------------------------------------------------------------------------
\* claims about requests answered from the cache
\* ------------------------------------------------------------------------
\* C35: a request answered from the cache returns in the step of its call,
\* and that step leaves the admission state (lastRequestTime,
\* requestTimestamps, requestCount, and the calls suspended in
\* checkRateLimit), the cache and the session as they were: the request has
\* done nothing but the cache lookup.
C35_CacheHitTouchesNothing ==
  [][\A r \in Clients :
       (qPc[r] = "idle" /\ qPc'[r] = "returned") =>
         /\ CachedLookup(contentCache, qKey'[r], clock) = qResult'[r]
         /\ qResult'[r] # Null
         /\ qTrace'[r] = <<"cache">>
         /\ UNCHANGED <<lastRequestTime, requestTimestamps, requestCount>>
         /\ UNCHANGED <<rlPc, rlNow, rlWake>>
         /\ UNCHANGED <<contentCache, sessionVars>>]_vars

\* a request was answered with what the only admitted request had stored
C35_Witness ==
  \E r1 \in Clients, r2 \in Clients :
    /\ r1 # r2
    /\ qStoredAt[r1] >= 0
    /\ qPc[r2] = "returned"
    /\ qTrace[r2] = <<"cache">>
    /\ qKey[r2] = qKey[r1]
    /\ qResult[r2] = qResult[r1]
    /\ qSeenStamp[r2] = qStoredAt[r1]
    /\ requestCount = 1
    /\ requestTimestamps = <<lastRequestTime>>

\* ------------------------------------------------------------------------
\* claims about smartDelay, login and the creator platform access
\* ------------------------------------------------------------------------
\* the hours the claim calls peak hours
ClaimedPeakHours == 20..23

\* C34: smartDelay() sleeps for the base delay plus a random 0 to 5 s, and
\* the base is 15 s exactly when the hour is one of 20..23, 10 s for every
\* hour 0..19.
C34_LargerBaseInPeakHoursOnly ==
  sdPc # "idle" =>
    /\ sdRandom \in 0..4999
    /\ sdDelay - sdRandom = IF sdHour \in ClaimedPeakHours
                              THEN PEAK_BASE_DELAY ELSE NORMAL_BASE_DELAY

\* C38: once the browser is acquired, login() throws only after 3 failed
\* attempts and then 'Login failed after maximum retries'; while it sleeps
\* before the next attempt, fewer than 3 attempts have failed, the 2 s pause
\* was set once per failure, and the page and the context the fields hold
\* are closed; it returns only after exactly one completed saveCookies.
C38_GivesUpAfterThreeAttemptsOnly ==
  /\ (lgOutcome.kind = "threw" /\ lgAttempts > 0) =>
       /\ lgAttempts = LOGIN_MAX_RETRIES
       /\ lgRetryCount = LOGIN_MAX_RETRIES
       /\ lgOutcome.error = "MaxRetries"
  /\ lgPc = "sleeping" =>
       /\ lgRetryCount = lgAttempts
       /\ lgRetryCount < LOGIN_MAX_RETRIES
       /\ lgSleeps = [i \in 1..lgRetryCount |-> LOGIN_RETRY_DELAY]
       /\ lgPage # 0 => lgPages[lgPage].state = "closed"
       /\ lgContext # 0 => lgContexts[lgContext] = "closed"
  /\ lgOutcome.kind = "returned" => lgSaves = 1

\* C39: accessCreatorPlatform() never throws, an error of any of its steps
\* gives the result false; waitForManualLogin() makes at most 180 polls, no
\* poll is pending after the 180th, it returns true only after a poll has
\* read a logged-in URL, and false only after 180 polls none of which has.
C39_NeverThrowsAndWaitIsBounded ==
  /\ cpResult \in {"none", "true", "false"}
  /\ cpPc = "returned" <=> cpResult # "none"
  /\ cpWait = "threw" => cpResult = "false"
  /\ cpAttempts <= MAX_ATTEMPTS
  /\ cpPc = "polling" => cpAttempts < MAX_ATTEMPTS
  /\ cpWait = "true" => cpSeen
  /\ cpWait = "false" => (cpAttempts = MAX_ATTEMPTS /\ ~cpSeen)

\* the first wait for the manual login has run out after 180 polls, and a
\* step of the access through the main site has thrown afterwards
C39_Witness ==
  /\ cpWait = "false"
  /\ cpWaits = 1
  /\ cpAttempts = MAX_ATTEMPTS
  /\ cpPc = "returned"
  /\ cpResult = "false"

====
